---- MODULE Spec2Model ----
(***************************************************************************)
(* Model of the multi-controller manager of lmLumos/nscon                  *)
(* (bluetooth-demo/multi_controller.go): the ControllerManager registry,   *)
(* its sync.RWMutex, the per-controller read goroutines and the mapping of *)
(* evdev events onto the nscon controller state.                           *)
(*                                                                         *)
(* Manager operations are modelled statement group by statement group so   *)
(* that what happens while the mutex is held is visible: every operation   *)
(* is  Lock ; body steps ; deferred Unlock.  A goroutine is identified by  *)
(* the controller it was started with (its `con` argument).                *)
(*                                                                         *)
(* Further specifications over the same variables: SpecMain is main() of   *)
(* multi_controller.go with its signal handling; SpecNormalize, SpecEvents,*)
(* SpecDpad, SpecRetry and SpecTable are the event handling of one program *)
(* at a time (the manager, the single-controller program unnamed/part_000  *)
(* and the pulse-mode program bluetooth-demo/no_held_buttons.go);          *)
(* SpecDecode and SpecOrder are one session of the manager with the reads  *)
(* of its goroutine recorded; SpecLive is the manager with tasks queueing  *)
(* for the mutex, under fairness.  A specification leaves the variables of *)
(* the others at their initial values.                                     *)
(***************************************************************************)
EXTENDS Integers, Sequences, FiniteSets, TLC

\* ------------------------------------------------------------------ bounds
\* How many controllers nscon.NewController+Connect may bring up in one run.
MaxHandles == 2
\* How many time.AfterFunc callbacks of one field may be pending at once.
MaxPending == 2

\* The reads recorded of one goroutine: in the specification of the record
\* format, and in the one of the order of the events.
MaxDecoded == 1
MaxConsumed == 3

\* --------------------------------------------------------- program constants
MinPlayer == 1
MaxPlayer == 8
EV_SYN == 0
EV_KEY == 1
EV_ABS == 3
eventSize == 24

\* ------------------------------------------------------------- input domains
Callers == {"c1", "c2"}
NoTask == "none"
\* playerNum arguments: both sides of each end of the accepted range.
PlayerArgs == {MinPlayer - 1, MinPlayer, MinPlayer + 1, MaxPlayer + 1}
HidgPaths == {"/dev/hidg0", "/dev/hidg9"}
\* the gadget devices the provisioning script has created
ExistingHidg == {"/dev/hidg0"}
InputPaths == {"/dev/input/event2", "/dev/input/event9"}
\* the event devices that exist (os.Open succeeds)
ExistingInputs == {"/dev/input/event2"}
Handles == 1..MaxHandles

\* ------------------------------------------------------ controller state
\* Analog values are exact rationals kept as integers in units of 1/Unit,
\* Unit being a common multiple of the two divisors 127.5*2 and 32767.
Unit == 255 * 32767

ButtonNames == {"A", "B", "X", "Y", "L", "R", "ZL", "ZR", "Minus", "Plus", "Home"}

\* nscon.Controller.Input as the programs use it
ZeroInput ==
    [ A |-> 0, B |-> 0, X |-> 0, Y |-> 0, L |-> 0, R |-> 0, ZL |-> 0, ZR |-> 0,
      Minus |-> 0, Plus |-> 0, Home |-> 0,
      LeftPress |-> 0, RightPress |-> 0,
      LeftX |-> 0, LeftY |-> 0, RightX |-> 0, RightY |-> 0,
      DpadUp |-> 0, DpadDown |-> 0, DpadLeft |-> 0, DpadRight |-> 0 ]

\* uint8(value) of an int32: the low eight bits
Uint8(value) == value % 256

\* setInput(&field, pressed)
setInput(pressed) == IF pressed THEN 1 ELSE 0

\* Mutant: the 16-bit rule divides by 32768.
RawNormalized_Div32768(value) ==
    IF value >= 0 /\ value <= 255 THEN [num |-> 2 * value - 255, den |-> 255]
    ELSE IF value >= -32768 /\ value <= 32767 THEN [num |-> value, den |-> 32768]
    ELSE [num |-> 2 * value - 255, den |-> 255]

\* The two-branch range inference of multi_controller.go, before clamping, as
\* a fraction num/den:  (v - 127.5)/127.5 = (2v - 255)/255,  v/32767.
RawNormalized(value) ==
    IF value >= 0 /\ value <= 255 THEN [num |-> 2 * value - 255, den |-> 255]
    ELSE IF value >= -32768 /\ value <= 32767 THEN [num |-> value, den |-> 32767]
    ELSE [num |-> 2 * value - 255, den |-> 255]

\* Clamp to valid range
Clamp(r) ==
    IF r.num > r.den THEN [num |-> 1, den |-> 1]
    ELSE IF r.num < -r.den THEN [num |-> -1, den |-> 1]
    ELSE r

\* the clamped fraction in units of 1/Unit
Scaled(r) == r.num * (Unit \div r.den)

\* Mutant: a deadzone of 0.06.
Deadzone_Wide(x) == IF 50 * x > -3 * Unit /\ 50 * x < 3 * Unit THEN 0 ELSE x

\* Apply deadzone:  -0.05 < x < 0.05  gives 0
Deadzone(x) == IF 20 * x > -Unit /\ 20 * x < Unit THEN 0 ELSE x

NormalizeAxis(value) == Deadzone(Scaled(Clamp(RawNormalized(value))))

\* Mutant: a d-pad axis back at 0 leaves both directions as they were.
Dpad_ZeroKeeps(neg, pos, value) ==
    IF value < 0 THEN <<1, 0>> ELSE IF value > 0 THEN <<0, 1>> ELSE <<neg, pos>>

\* The level-mode d-pad: value < 0 sets the negative direction (Left, Up)
\* and clears the other, value > 0 the positive one (Right, Down), 0 clears
\* both.  The pair is <<negative, positive>>.
Dpad(neg, pos, value) ==
    IF value < 0 THEN <<1, 0>> ELSE IF value > 0 THEN <<0, 1>> ELSE <<0, 0>>

\* The level-mode mapping of one decoded event, n being the normalized
\* value: the switch of handleInputEvent in multi_controller.go and in the
\* single-controller program (unnamed/part_000), which differ in how n is
\* computed only.
LevelEvent(in, eventType, code, value, n) ==
    LET pressed == value > 0
        h == Dpad(in.DpadLeft, in.DpadRight, value)
        v == Dpad(in.DpadUp, in.DpadDown, value)
    IN
    IF eventType = EV_KEY THEN
        CASE code = 304 -> [in EXCEPT !.A = setInput(pressed)]
          [] code = 305 -> [in EXCEPT !.B = setInput(pressed)]
          [] code = 307 -> [in EXCEPT !.Y = setInput(pressed)]
          [] code = 308 -> [in EXCEPT !.X = setInput(pressed)]
          [] code = 310 -> [in EXCEPT !.L = setInput(pressed)]
          [] code = 311 -> [in EXCEPT !.R = setInput(pressed)]
          [] code = 312 -> [in EXCEPT !.ZL = setInput(pressed)]
          [] code = 313 -> [in EXCEPT !.ZR = setInput(pressed)]
          [] code = 314 -> [in EXCEPT !.Minus = setInput(pressed)]
          [] code = 315 -> [in EXCEPT !.Plus = setInput(pressed)]
          [] code = 316 -> [in EXCEPT !.Home = setInput(pressed)]
          [] code = 317 -> [in EXCEPT !.LeftPress = Uint8(value)]
          [] code = 318 -> [in EXCEPT !.RightPress = Uint8(value)]
          [] OTHER -> in
    ELSE IF eventType = EV_ABS THEN
        CASE code = 0 -> [in EXCEPT !.LeftX = n]
          [] code = 1 -> [in EXCEPT !.LeftY = -n]
          [] code = 3 -> [in EXCEPT !.RightX = n]
          [] code = 4 -> [in EXCEPT !.RightY = -n]
          [] code = 16 -> [in EXCEPT !.DpadLeft = h[1], !.DpadRight = h[2]]
          [] code = 17 -> [in EXCEPT !.DpadUp = v[1], !.DpadDown = v[2]]
          [] OTHER -> in
    ELSE in

\* Mutant: the two axes of the left stick are routed crosswise.
handleInputEvent_CrossedAxes(in, eventType, code, value) ==
    LevelEvent(in, eventType, IF code = 0 THEN 1 ELSE IF code = 1 THEN 0 ELSE code,
               value, NormalizeAxis(value))

\* ControllerManager.handleInputEvent: the controller state after one event
handleInputEvent(in, eventType, code, value) ==
    LevelEvent(in, eventType, code, value, NormalizeAxis(value))

\* ------------------------------------------------------------------ state
VARIABLES
    controllers,  \* cm.controllers: playerNum -> controller (a handle)
    devices,      \* cm.devices: playerNum -> input device path
    mutex,        \* cm.mutex: the writer holding it, the readers holding it
    nextHandle,   \* the next controller nscon.NewController+Connect brings up
    closeCount,   \* per controller: how often Controller.Close was called
    input,        \* per controller: con.Input
    pc,           \* per caller: where it is in a manager operation
    arg,          \* per caller: the operation's arguments
    con,          \* per caller: AddController's local `controller`
    err,          \* per caller: what the operation is about to return
    players,      \* per caller: ListControllers' local `players`
    loopPc,       \* per controller: where its read goroutine is
    loopArg,      \* per controller: the goroutine's playerNum and devicePath
    mainPc,       \* where main() of multi_controller.go is
    sigReady,     \* signal.Notify has been called
    program,      \* which program's event handling is looked at on its own
    readPc,       \* that program's read loop: about to read, or to handle
    event,        \* the record or line the read loop has read last
    conInput,     \* con.Input of that program's controller
    prevInput,    \* con.Input as it was when the last event's handling began
    timers,       \* per field: the time.AfterFunc callbacks still to fire
    axes,         \* state.axes of the pulse-mode program's textual transport
    consumed      \* per controller: what its goroutine's reads have returned

mgrVars == <<controllers, devices, mutex, nextHandle, closeCount>>
callVars == <<pc, arg, con, err, players>>
loopVars == <<loopPc, loopArg, input>>
mainVars == <<mainPc, sigReady>>
handlerVars == <<program, readPc, event, conInput, prevInput, timers, axes>>
historyVars == <<consumed>>
vars == <<controllers, devices, mutex, nextHandle, closeCount, input,
          pc, arg, con, err, players, loopPc, loopArg,
          mainPc, sigReady, program, readPc, event, conInput, prevInput,
          timers, axes, consumed>>

EmptyMap == [k \in {} |-> 0]
NoArg == [op |-> "none", playerNum |-> 0, hidgDevice |-> "", inputDevice |-> ""]
NoLoopArg == [playerNum |-> 0, devicePath |-> ""]

\* The fields the pulse-mode program sets through setInput: their reset is
\* left to a timer.
PulseFields == ButtonNames \cup {"DpadUp", "DpadDown", "DpadLeft", "DpadRight"}
NoTimers == [f \in PulseFields |-> 0]
\* The stick axes of the textual transport; reading a key that state.axes
\* does not hold yet gives 0.
AxisNames == {"ABS_X", "ABS_Y", "ABS_RX", "ABS_RY"}
NoAxes == [a \in AxisNames |-> 0]
NoEvent == [transport |-> "none", buffer |-> <<>>, eventType |-> "",
            code |-> "", value |-> 0]

\* main() is not under way: the manager is driven by arbitrary callers.
NoMain == mainPc = "none" /\ sigReady = FALSE

\* No single program's event handling is looked at.
NoHandler ==
    /\ program = "none"
    /\ readPc = "none"
    /\ event = NoEvent
    /\ conInput = ZeroInput
    /\ prevInput = ZeroInput
    /\ timers = NoTimers
    /\ axes = NoAxes

\* NewControllerManager, no operation under way, no goroutine started, no
\* read made
NewManager ==
    /\ consumed = [h \in Handles |-> <<>>]
    /\ controllers = EmptyMap
    /\ devices = EmptyMap
    /\ mutex = [writer |-> NoTask, callers |-> {}, loops |-> {}]
    /\ nextHandle = 1
    /\ closeCount = [h \in Handles |-> 0]
    /\ input = [h \in Handles |-> ZeroInput]
    /\ pc = [c \in Callers |-> "idle"]
    /\ arg = [c \in Callers |-> NoArg]
    /\ con = [c \in Callers |-> 0]
    /\ err = [c \in Callers |-> "none"]
    /\ players = [c \in Callers |-> <<>>]
    /\ loopPc = [h \in Handles |-> "none"]
    /\ loopArg = [h \in Handles |-> NoLoopArg]

Init == NewManager /\ NoMain /\ NoHandler

\* ------------------------------------------------------------ sync.RWMutex
\* Mutant: Lock() that does not wait for the readers to leave.
CanLock_IgnoresReaders == mutex.writer = NoTask
\* The callers whose Lock() has announced a writer and is waiting for the
\* readers to leave.
Announced == {c \in Callers : pc[c] = "lock_pending"}
\* Lock() returns at once when no writer and no reader holds the mutex and
\* no writer is announced.
CanLock ==
    /\ mutex.writer = NoTask /\ mutex.callers = {} /\ mutex.loops = {}
    /\ Announced = {}
\* RLock() returns at once when no writer holds the mutex or is announced.
CanRLock == mutex.writer = NoTask /\ Announced = {}
\* Lock() of caller c returns: at once, or, for an announced writer, when
\* the last reader has left.
LockReturns(c) ==
    \/ pc[c] = "idle" /\ CanLock
    \/ pc[c] = "lock_pending" /\ mutex.callers = {} /\ mutex.loops = {}
\* The read loops whose RLock() is blocked.
BlockedLoops == {h \in Handles : loopPc[h] = "rlock_wait"}

\* delete(m, k)
Delete(m, k) == [x \in DOMAIN m \ {k} |-> m[x]]
\* m[k] = v
Put(m, k, v) == [x \in DOMAIN m \cup {k} |-> IF x = k THEN v ELSE m[x]]

\* --------------------------------------------------- the evdev record
\* struct input_event on a 64-bit kernel: 16 bytes of timestamp, then type
\* and code (little-endian u16) and value (little-endian s32).
Encode(eventType, code, value) ==
    [i \in 1..eventSize |->
        CASE i = 17 -> eventType % 256
          [] i = 18 -> (eventType \div 256) % 256
          [] i = 19 -> code % 256
          [] i = 20 -> (code \div 256) % 256
          [] i = 21 -> value % 256
          [] i = 22 -> (value \div 256) % 256
          [] i = 23 -> (value \div 65536) % 256
          [] i = 24 -> (value \div 16777216) % 256
          [] OTHER -> 0]

\* buffer[16..23] of the source are elements 17..24 here.
DecodeType(buffer) == buffer[17] + buffer[18] * 256
DecodeCode(buffer) == buffer[19] + buffer[20] * 256
\* Mutant: the value is put together as an unsigned number.
DecodeValue_Unsigned(buffer) ==
    buffer[21] + buffer[22] * 256 + buffer[23] * 65536
    + (buffer[24] % 128) * 16777216

\* int32(b20) | int32(b21)<<8 | int32(b22)<<16 | int32(b23)<<24: the top byte
\* carries the sign.
DecodeValue(buffer) ==
    buffer[21] + buffer[22] * 256 + buffer[23] * 65536
    + (IF buffer[24] >= 128 THEN buffer[24] - 256 ELSE buffer[24]) * 16777216

\* What one file.Read(buffer) can return.
ReadError == [failed |-> TRUE, n |-> 0, buffer |-> Encode(0, 0, 0)]
ShortRead == [failed |-> FALSE, n |-> 8, buffer |-> Encode(0, 0, 0)]
Record(eventType, code, value) ==
    [failed |-> FALSE, n |-> eventSize, buffer |-> Encode(eventType, code, value)]

\* The reads the manager specification draws from: an error, a short read,
\* a press and a release of A.
ManagerReads ==
    {ReadError, ShortRead, Record(EV_KEY, 304, 1), Record(EV_KEY, 304, 0)}

\* ------------------------------------------------------- AddController
\* Mutant: the upper end of the range is off by one.
PlayerInRange_UpperOffByOne(playerNum) ==
    ~(playerNum < MinPlayer \/ playerNum > MaxPlayer + 1)

PlayerInRange(playerNum) == ~(playerNum < MinPlayer \/ playerNum > MaxPlayer)

Exists(playerNum) == playerNum \in DOMAIN controllers

\* nscon's Controller.Connect opens the gadget device: it fails when the
\* device is not there.
Connect(hidgDevice) == hidgDevice \in ExistingHidg

\* os.Open(devicePath)
Open(devicePath) == devicePath \in ExistingInputs

\* Whether a call with these arguments would bring up a controller.
WouldConnect(playerNum, hidgDevice) ==
    PlayerInRange(playerNum) /\ ~Exists(playerNum) /\ Connect(hidgDevice)

\* cm.mutex.Lock(); defer cm.mutex.Unlock()
AddLock(c, playerNum, hidgDevice, inputDevice) ==
    /\ LockReturns(c)
    /\ WouldConnect(playerNum, hidgDevice) => nextHandle <= MaxHandles
    /\ mutex' = [mutex EXCEPT !.writer = c]
    /\ pc' = [pc EXCEPT ![c] = "add_check"]
    /\ arg' = [arg EXCEPT ![c] = [op |-> "add", playerNum |-> playerNum,
                                  hidgDevice |-> hidgDevice,
                                  inputDevice |-> inputDevice]]
    /\ UNCHANGED <<controllers, devices, nextHandle, closeCount, con, err,
                   players, loopVars>>

\* Mutant: the duplicate check is missing.
AddCheck_NoDuplicateCheck(c) ==
    /\ pc[c] = "add_check"
    /\ IF ~PlayerInRange(arg[c].playerNum)
       THEN /\ err' = [err EXCEPT ![c] = "range"]
            /\ pc' = [pc EXCEPT ![c] = "add_ret"]
       ELSE /\ err' = err
            /\ pc' = [pc EXCEPT ![c] = "add_connect"]
    /\ UNCHANGED <<mgrVars, arg, con, players, loopVars>>

\* the range check, then the duplicate check
AddCheck(c) ==
    /\ pc[c] = "add_check"
    /\ IF ~PlayerInRange(arg[c].playerNum)
       THEN /\ err' = [err EXCEPT ![c] = "range"]
            /\ pc' = [pc EXCEPT ![c] = "add_ret"]
       ELSE IF Exists(arg[c].playerNum)
       THEN /\ err' = [err EXCEPT ![c] = "duplicate"]
            /\ pc' = [pc EXCEPT ![c] = "add_ret"]
       ELSE /\ err' = err
            /\ pc' = [pc EXCEPT ![c] = "add_connect"]
    /\ UNCHANGED <<mgrVars, arg, con, players, loopVars>>

\* Mutant: the error of Connect is not looked at.
AddConnect_IgnoresError(c) ==
    /\ pc[c] = "add_connect"
    /\ con' = [con EXCEPT ![c] = nextHandle]
    /\ nextHandle' = nextHandle + 1
    /\ err' = err
    /\ pc' = [pc EXCEPT ![c] = "add_register"]
    /\ UNCHANGED <<controllers, devices, mutex, closeCount, arg, players, loopVars>>

\* Mutant: the goroutine is started as soon as the controller is connected,
\* before the controller is put in the maps.
AddConnect_StartsLoop(c) ==
    /\ pc[c] = "add_connect"
    /\ IF Connect(arg[c].hidgDevice)
       THEN /\ con' = [con EXCEPT ![c] = nextHandle]
            /\ nextHandle' = nextHandle + 1
            /\ err' = err
            /\ pc' = [pc EXCEPT ![c] = "add_register"]
            /\ loopPc' = [loopPc EXCEPT ![nextHandle] = "open"]
            /\ loopArg' = [loopArg EXCEPT ![nextHandle] =
                              [playerNum |-> arg[c].playerNum,
                               devicePath |-> arg[c].inputDevice]]
       ELSE /\ err' = [err EXCEPT ![c] = "connect"]
            /\ pc' = [pc EXCEPT ![c] = "add_ret"]
            /\ UNCHANGED <<con, nextHandle, loopPc, loopArg>>
    /\ UNCHANGED <<controllers, devices, mutex, closeCount, arg, players, input>>

\* controller := nscon.NewController(hidgDevice); err := controller.Connect()
\* A controller whose Connect failed is referenced by nothing afterwards, so
\* only a connected one takes a handle.
AddConnect(c) ==
    /\ pc[c] = "add_connect"
    /\ IF Connect(arg[c].hidgDevice)
       THEN /\ con' = [con EXCEPT ![c] = nextHandle]
            /\ nextHandle' = nextHandle + 1
            /\ err' = err
            /\ pc' = [pc EXCEPT ![c] = "add_register"]
       ELSE /\ err' = [err EXCEPT ![c] = "connect"]
            /\ pc' = [pc EXCEPT ![c] = "add_ret"]
            /\ UNCHANGED <<con, nextHandle>>
    /\ UNCHANGED <<controllers, devices, mutex, closeCount, arg, players, loopVars>>

\* Mutant: the device path is not recorded.
AddRegister_NoDevice(c) ==
    /\ pc[c] = "add_register"
    /\ controllers' = Put(controllers, arg[c].playerNum, con[c])
    /\ pc' = [pc EXCEPT ![c] = "add_spawn"]
    /\ UNCHANGED <<devices, mutex, nextHandle, closeCount, arg, con, err, players,
                   loopVars>>

\* cm.controllers[playerNum] = controller; cm.devices[playerNum] = inputDevice
AddRegister(c) ==
    /\ pc[c] = "add_register"
    /\ controllers' = Put(controllers, arg[c].playerNum, con[c])
    /\ devices' = Put(devices, arg[c].playerNum, arg[c].inputDevice)
    /\ pc' = [pc EXCEPT ![c] = "add_spawn"]
    /\ UNCHANGED <<mutex, nextHandle, closeCount, arg, con, err, players, loopVars>>

\* go cm.readControllerInput(playerNum, inputDevice, controller); return nil
AddSpawn(c) ==
    /\ pc[c] = "add_spawn"
    /\ loopPc' = [loopPc EXCEPT ![con[c]] = "open"]
    /\ loopArg' = [loopArg EXCEPT ![con[c]] =
                      [playerNum |-> arg[c].playerNum,
                       devicePath |-> arg[c].inputDevice]]
    /\ pc' = [pc EXCEPT ![c] = "add_ret"]
    /\ UNCHANGED <<mgrVars, arg, con, err, players, input>>

\* ---------------------------------------------------- RemoveController
RemoveLock(c, playerNum) ==
    /\ LockReturns(c)
    /\ mutex' = [mutex EXCEPT !.writer = c]
    /\ pc' = [pc EXCEPT ![c] = "remove_body"]
    /\ arg' = [arg EXCEPT ![c] = [NoArg EXCEPT !.op = "remove",
                                                !.playerNum = playerNum]]
    /\ UNCHANGED <<controllers, devices, nextHandle, closeCount, con, err,
                   players, loopVars>>

\* Mutant: for a slot that is not registered the devices map is replaced by
\* an empty one.
RemoveApply_AbsentClearsDevices(ctrls, devs, closes, playerNum) ==
    IF playerNum \in DOMAIN ctrls
    THEN [controllers |-> Delete(ctrls, playerNum),
          devices |-> Delete(devs, playerNum),
          closeCount |-> [closes EXCEPT ![ctrls[playerNum]] = @ + 1]]
    ELSE [controllers |-> ctrls, devices |-> EmptyMap, closeCount |-> closes]

\* Mutant: the controller is closed but stays in the maps.
RemoveApply_KeepsEntry(ctrls, devs, closes, playerNum) ==
    IF playerNum \in DOMAIN ctrls
    THEN [controllers |-> ctrls, devices |-> devs,
          closeCount |-> [closes EXCEPT ![ctrls[playerNum]] = @ + 1]]
    ELSE [controllers |-> ctrls, devices |-> devs, closeCount |-> closes]

\* What the body of RemoveController leaves of the registry and of the
\* controllers' close counts.
RemoveApply(ctrls, devs, closes, playerNum) ==
    IF playerNum \in DOMAIN ctrls
    THEN [controllers |-> Delete(ctrls, playerNum),
          devices |-> Delete(devs, playerNum),
          closeCount |-> [closes EXCEPT ![ctrls[playerNum]] = @ + 1]]
    ELSE [controllers |-> ctrls, devices |-> devs, closeCount |-> closes]

RemoveBody(c) ==
    /\ pc[c] = "remove_body"
    /\ LET after == RemoveApply(controllers, devices, closeCount, arg[c].playerNum)
       IN /\ controllers' = after.controllers
          /\ devices' = after.devices
          /\ closeCount' = after.closeCount
    /\ pc' = [pc EXCEPT ![c] = "remove_ret"]
    /\ UNCHANGED <<mutex, nextHandle, arg, con, err, players, loopVars>>

\* ----------------------------------------------------------------- Close
CloseLock(c) ==
    /\ LockReturns(c)
    /\ mutex' = [mutex EXCEPT !.writer = c]
    /\ pc' = [pc EXCEPT ![c] = "close_body"]
    /\ arg' = [arg EXCEPT ![c] = [NoArg EXCEPT !.op = "close"]]
    /\ UNCHANGED <<controllers, devices, nextHandle, closeCount, con, err,
                   players, loopVars>>

\* The handles a registry holds.
Registered(ctrls) == {ctrls[p] : p \in DOMAIN ctrls}

\* Mutant: the maps are not replaced by empty ones.
CloseApply_KeepsMaps(ctrls, devs, closes) ==
    [controllers |-> ctrls,
     devices |-> devs,
     closeCount |-> [h \in DOMAIN closes |->
                        IF h \in {ctrls[p] : p \in DOMAIN ctrls} THEN closes[h] + 1
                        ELSE closes[h]]]

\* What the body of Close leaves: every registered controller closed, both
\* maps replaced by empty ones.
CloseApply(ctrls, devs, closes) ==
    [controllers |-> EmptyMap,
     devices |-> EmptyMap,
     closeCount |-> [h \in DOMAIN closes |->
                        IF h \in Registered(ctrls) THEN closes[h] + 1
                        ELSE closes[h]]]

CloseBody(c) ==
    /\ pc[c] = "close_body"
    /\ LET after == CloseApply(controllers, devices, closeCount)
       IN /\ controllers' = after.controllers
          /\ devices' = after.devices
          /\ closeCount' = after.closeCount
    /\ pc' = [pc EXCEPT ![c] = "close_ret"]
    /\ UNCHANGED <<mutex, nextHandle, arg, con, err, players, loopVars>>

\* ------------------------------------------------------ ListControllers
Range(s) == {s[i] : i \in DOMAIN s}

\* Mutant: the read lock is not taken.
ListRLock_NoLock(c) ==
    /\ pc[c] = "idle"
    /\ pc' = [pc EXCEPT ![c] = "list_iter"]
    /\ arg' = [arg EXCEPT ![c] = [NoArg EXCEPT !.op = "list"]]
    /\ UNCHANGED <<mgrVars, con, err, players, loopVars>>

\* cm.mutex.RLock(); defer cm.mutex.RUnlock(); var players []int
ListRLock(c) ==
    /\ pc[c] = "idle"
    /\ CanRLock
    /\ mutex' = [mutex EXCEPT !.callers = @ \cup {c}]
    /\ pc' = [pc EXCEPT ![c] = "list_iter"]
    /\ arg' = [arg EXCEPT ![c] = [NoArg EXCEPT !.op = "list"]]
    /\ UNCHANGED <<controllers, devices, nextHandle, closeCount, con, err,
                   players, loopVars>>

\* for playerNum := range cm.controllers { players = append(players, playerNum) }
\* One step per key: the range visits, in any order, each key of the map as
\* it is when the key is reached.
ListIter(c) ==
    /\ pc[c] = "list_iter"
    /\ LET left == DOMAIN controllers \ Range(players[c])
       IN IF left = {}
          THEN /\ pc' = [pc EXCEPT ![c] = "list_ret"]
               /\ players' = players
          ELSE /\ \E playerNum \in left :
                    players' = [players EXCEPT ![c] = Append(@, playerNum)]
               /\ pc' = pc
    /\ UNCHANGED <<mgrVars, arg, con, err, loopVars>>

\* ------------------------------------------- return: the deferred unlock
\* Unlock() of a writer lets in every reader that RLock() has blocked.
WriterRet == {"add_ret", "remove_ret", "close_ret"}

Return(c) ==
    /\ pc[c] \in WriterRet \cup {"list_ret"}
    /\ mutex' = IF pc[c] = "list_ret"
                THEN [mutex EXCEPT !.callers = @ \ {c}]
                ELSE [mutex EXCEPT !.writer = NoTask, !.loops = @ \cup BlockedLoops]
    /\ loopPc' = IF pc[c] = "list_ret"
                 THEN loopPc
                 ELSE [h \in Handles |->
                          IF h \in BlockedLoops THEN "locked" ELSE loopPc[h]]
    /\ pc' = [pc EXCEPT ![c] = "idle"]
    /\ arg' = [arg EXCEPT ![c] = NoArg]
    /\ con' = [con EXCEPT ![c] = 0]
    /\ err' = [err EXCEPT ![c] = "none"]
    /\ players' = [players EXCEPT ![c] = <<>>]
    /\ UNCHANGED <<controllers, devices, nextHandle, closeCount, loopArg, input>>

\* ---------------------------------------------------- readControllerInput
\* file, err := os.Open(devicePath); on an error: log and return
LoopOpen(h) ==
    /\ loopPc[h] = "open"
    /\ loopPc' = [loopPc EXCEPT ![h] =
                     IF Open(loopArg[h].devicePath) THEN "check" ELSE "open_failed"]
    /\ UNCHANGED <<mgrVars, callVars, loopArg, input>>

\* Mutant: the membership check is made without the read lock.
LoopRLock_NoLock(h) ==
    /\ loopPc[h] = "check"
    /\ loopPc' = [loopPc EXCEPT ![h] = "locked"]
    /\ UNCHANGED <<mgrVars, callVars, loopArg, input>>

\* cm.mutex.RLock()
LoopRLock(h) ==
    /\ loopPc[h] = "check"
    /\ CanRLock
    /\ mutex' = [mutex EXCEPT !.loops = @ \cup {h}]
    /\ loopPc' = [loopPc EXCEPT ![h] = "locked"]
    /\ UNCHANGED <<controllers, devices, nextHandle, closeCount, callVars,
                   loopArg, input>>

\* Mutant: the loop of a slot that is gone returns without RUnlock().
LoopCheck_ReturnsLocked(h) ==
    /\ loopPc[h] = "locked"
    /\ mutex' = IF Exists(loopArg[h].playerNum)
                THEN [mutex EXCEPT !.loops = @ \ {h}]
                ELSE mutex
    /\ loopPc' = [loopPc EXCEPT ![h] =
                     IF Exists(loopArg[h].playerNum) THEN "read" ELSE "stopped"]
    /\ UNCHANGED <<controllers, devices, nextHandle, closeCount, callVars,
                   loopArg, input>>

\* _, exists := cm.controllers[playerNum]; cm.mutex.RUnlock();
\* if !exists { return }
LoopCheck(h) ==
    /\ loopPc[h] = "locked"
    /\ mutex' = [mutex EXCEPT !.loops = @ \ {h}]
    /\ loopPc' = [loopPc EXCEPT ![h] =
                     IF Exists(loopArg[h].playerNum) THEN "read" ELSE "stopped"]
    /\ UNCHANGED <<controllers, devices, nextHandle, closeCount, callVars,
                   loopArg, input>>

\* The controller state after the goroutine has dealt with one read: an
\* error (sleep, continue) and a short read (continue) leave it alone.
ApplyRead(in, r) ==
    IF r.failed THEN in
    ELSE IF r.n # eventSize THEN in
    ELSE handleInputEvent(in, DecodeType(r.buffer), DecodeCode(r.buffer),
                          DecodeValue(r.buffer))

\* Mutant: one controller state shared by all goroutines.
LoopRead_SharedInput(h, reads) ==
    /\ loopPc[h] = "read"
    /\ \E r \in reads : input' = [g \in Handles |-> ApplyRead(input[g], r)]
    /\ loopPc' = [loopPc EXCEPT ![h] = "check"]
    /\ UNCHANGED <<mgrVars, callVars, loopArg>>

\* Mutant: every record is applied to a zeroed controller state.
LoopRead_FromZero(h, reads) ==
    /\ loopPc[h] = "read"
    /\ \E r \in reads : input' = [input EXCEPT ![h] = ApplyRead(ZeroInput, r)]
    /\ loopPc' = [loopPc EXCEPT ![h] = "check"]
    /\ UNCHANGED <<mgrVars, callVars, loopArg>>

\* n, err := file.Read(buffer) ... cm.handleInputEvent(...), back to the
\* top of the for loop
LoopRead(h, reads) ==
    /\ loopPc[h] = "read"
    /\ \E r \in reads : input' = [input EXCEPT ![h] = ApplyRead(@, r)]
    /\ loopPc' = [loopPc EXCEPT ![h] = "check"]
    /\ UNCHANGED <<mgrVars, callVars, loopArg>>

\* ------------------------------------------------------- specification
\* Nothing of main() or of a program looked at on its own moves.
Idle == UNCHANGED <<mainVars, handlerVars, historyVars>>

Next ==
    \/ \E c \in Callers, p \in PlayerArgs, hd \in HidgPaths, dev \in InputPaths :
          AddLock(c, p, hd, dev) /\ Idle
    \/ \E c \in Callers : AddCheck(c) /\ Idle
    \/ \E c \in Callers : AddConnect(c) /\ Idle
    \/ \E c \in Callers : AddRegister(c) /\ Idle
    \/ \E c \in Callers : AddSpawn(c) /\ Idle
    \/ \E c \in Callers, p \in PlayerArgs : RemoveLock(c, p) /\ Idle
    \/ \E c \in Callers : RemoveBody(c) /\ Idle
    \/ \E c \in Callers : CloseLock(c) /\ Idle
    \/ \E c \in Callers : CloseBody(c) /\ Idle
    \/ \E c \in Callers : ListRLock(c) /\ Idle
    \/ \E c \in Callers : ListIter(c) /\ Idle
    \/ \E c \in Callers : Return(c) /\ Idle
    \/ \E h \in Handles : LoopOpen(h) /\ Idle
    \/ \E h \in Handles : LoopRLock(h) /\ Idle
    \/ \E h \in Handles : LoopCheck(h) /\ Idle
    \/ \E h \in Handles : LoopRead(h, ManagerReads) /\ Idle

Spec == Init /\ [][Next]_vars

\* ------------------------------------------ the mutex under contention
\* cm.mutex.Lock() of a writer operation finds the mutex taken: the caller
\* queues behind the writer that holds it or is announced.
WaitLock(c) ==
    /\ pc[c] = "idle"
    /\ ~CanLock
    /\ pc' = [pc EXCEPT ![c] = "lock_wait"]
    /\ UNCHANGED <<mgrVars, arg, con, err, players, loopVars>>

\* The queued writer is the next one: from now on RLock() blocks, and
\* Lock() returns when the readers that hold the mutex have left.
Announce(c) ==
    /\ pc[c] = "lock_wait"
    /\ mutex.writer = NoTask
    /\ Announced = {}
    /\ pc' = [pc EXCEPT ![c] = "lock_pending"]
    /\ UNCHANGED <<mgrVars, arg, con, err, players, loopVars>>

\* cm.mutex.RLock() of a read loop finds a writer holding the mutex or
\* announced: the loop blocks until that writer's Unlock().
LoopWait(h) ==
    /\ loopPc[h] = "check"
    /\ ~CanRLock
    /\ loopPc' = [loopPc EXCEPT ![h] = "rlock_wait"]
    /\ UNCHANGED <<mgrVars, callVars, loopArg, input>>

\* The calls made under contention: slot 1 and a slot out of range, the
\* gadget device present or not.
LivePlayers == {1, 9}
LiveInputs == {"/dev/input/event2"}

\* What caller c does once its call has begun, up to the deferred unlock.
CallerStep(c) ==
    \/ \E p \in LivePlayers, hd \in HidgPaths, dev \in LiveInputs :
          pc[c] = "lock_pending" /\ AddLock(c, p, hd, dev)
    \/ \E p \in LivePlayers : pc[c] = "lock_pending" /\ RemoveLock(c, p)
    \/ pc[c] = "lock_pending" /\ CloseLock(c)
    \/ AddCheck(c) \/ AddConnect(c) \/ AddRegister(c) \/ AddSpawn(c)
    \/ RemoveBody(c) \/ CloseBody(c) \/ ListIter(c) \/ Return(c)

\* What read loop h does from the top of its for loop to the end of the
\* membership check.
LoopStep(h) == LoopRLock(h) \/ LoopWait(h) \/ LoopCheck(h)

NextLive ==
    \/ \E c \in Callers, p \in LivePlayers, hd \in HidgPaths, dev \in LiveInputs :
          AddLock(c, p, hd, dev) /\ Idle
    \/ \E c \in Callers : AddCheck(c) /\ Idle
    \/ \E c \in Callers : AddConnect(c) /\ Idle
    \/ \E c \in Callers : AddRegister(c) /\ Idle
    \/ \E c \in Callers : AddSpawn(c) /\ Idle
    \/ \E c \in Callers, p \in LivePlayers : RemoveLock(c, p) /\ Idle
    \/ \E c \in Callers : RemoveBody(c) /\ Idle
    \/ \E c \in Callers : CloseLock(c) /\ Idle
    \/ \E c \in Callers : CloseBody(c) /\ Idle
    \/ \E c \in Callers : ListRLock(c) /\ Idle
    \/ \E c \in Callers : ListIter(c) /\ Idle
    \/ \E c \in Callers : Return(c) /\ Idle
    \/ \E c \in Callers : WaitLock(c) /\ Idle
    \/ \E c \in Callers : Announce(c) /\ Idle
    \/ \E h \in Handles : LoopOpen(h) /\ Idle
    \/ \E h \in Handles : LoopRLock(h) /\ Idle
    \/ \E h \in Handles : LoopWait(h) /\ Idle
    \/ \E h \in Handles : LoopCheck(h) /\ Idle
    \/ \E h \in Handles : LoopRead(h, {Record(EV_KEY, 304, 1)}) /\ Idle

\* The scheduler runs every goroutine that can take a step, Connect and
\* Close return, and the mutex does not pass over a queued writer for ever;
\* nothing is assumed of file.Read, which may block.
Fairness ==
    /\ \A c \in Callers : WF_vars(CallerStep(c) /\ Idle)
    /\ \A c \in Callers : SF_vars(Announce(c) /\ Idle)
    /\ \A h \in Handles : WF_vars(LoopStep(h) /\ Idle)

SpecLive == Init /\ [][NextLive]_vars /\ Fairness

\* ------------------------------------------- main() of multi_controller.go
\* The main goroutine is the manager's only caller.  Manual mode is
\* modelled: any number of AddController calls with any arguments, then
\* ListControllers; auto mode makes a subset of these calls.
Main == "c1"

\* The process has neither returned from main nor been ended by a signal.
Running == mainPc \notin {"exited", "killed"}

\* manager := NewControllerManager(logLevel); defer manager.Close()
InitMain == NewManager /\ NoHandler /\ mainPc = "start" /\ sigReady = FALSE

\* Auto mode, findInputDevices() finds nothing: return.
MainNoDevices ==
    /\ mainPc = "start"
    /\ mainPc' = "return"
    /\ UNCHANGED <<mgrVars, callVars, loopVars, sigReady, handlerVars, historyVars>>

\* Otherwise main goes on to add controllers.
MainBegin ==
    /\ mainPc = "start"
    /\ mainPc' = "config"
    /\ UNCHANGED <<mgrVars, callVars, loopVars, sigReady, handlerVars, historyVars>>

\* err = manager.AddController(playerNum, hidgDevice, inputDevice)
MainAddController(playerNum, hidgDevice, inputDevice) ==
    /\ mainPc = "config"
    /\ AddLock(Main, playerNum, hidgDevice, inputDevice)
    /\ mainPc' = "add"
    /\ UNCHANGED <<sigReady, handlerVars, historyVars>>

\* AddController returns (an error is logged) and the loop goes on.
MainAddReturn ==
    /\ mainPc = "add"
    /\ pc[Main] = "add_ret"
    /\ Return(Main)
    /\ mainPc' = "config"
    /\ UNCHANGED <<sigReady, handlerVars, historyVars>>

\* "done", an empty line or end of input: controllers := ListControllers()
MainListControllers ==
    /\ mainPc = "config"
    /\ ListRLock(Main)
    /\ mainPc' = "list"
    /\ UNCHANGED <<sigReady, handlerVars, historyVars>>

\* if len(controllers) == 0 { return }
MainListReturn ==
    /\ mainPc = "list"
    /\ pc[Main] = "list_ret"
    /\ Return(Main)
    /\ mainPc' = IF Len(players[Main]) = 0 THEN "return" ELSE "notify"
    /\ UNCHANGED <<sigReady, handlerVars, historyVars>>

\* signal.Notify(c, os.Interrupt, syscall.SIGTERM); main blocks in <-c
MainNotify ==
    /\ mainPc = "notify"
    /\ sigReady' = TRUE
    /\ mainPc' = "wait"
    /\ UNCHANGED <<mgrVars, callVars, loopVars, handlerVars, historyVars>>

\* SIGINT or SIGTERM arrives.  Once signal.Notify has been called it is
\* sent on c and main, blocked in <-c, returns; before that the Go runtime
\* ends the process at once and no deferred call runs.
Signal ==
    /\ Running
    /\ IF sigReady THEN mainPc = "wait" /\ mainPc' = "return"
                   ELSE mainPc' = "killed"
    /\ UNCHANGED <<mgrVars, callVars, loopVars, sigReady, handlerVars, historyVars>>

\* main returns: the deferred manager.Close() starts
MainDeferredClose ==
    /\ mainPc = "return"
    /\ CloseLock(Main)
    /\ mainPc' = "close"
    /\ UNCHANGED <<sigReady, handlerVars, historyVars>>

\* manager.Close() has returned: the process exits
MainExit ==
    /\ mainPc = "close"
    /\ pc[Main] = "close_ret"
    /\ Return(Main)
    /\ mainPc' = "exited"
    /\ UNCHANGED <<sigReady, handlerVars, historyVars>>

NextMain ==
    \/ MainNoDevices
    \/ MainBegin
    \/ \E p \in PlayerArgs, hd \in HidgPaths, dev \in InputPaths :
          MainAddController(p, hd, dev)
    \/ mainPc = "add" /\ AddCheck(Main) /\ Idle
    \/ mainPc = "add" /\ AddConnect(Main) /\ Idle
    \/ mainPc = "add" /\ AddRegister(Main) /\ Idle
    \/ mainPc = "add" /\ AddSpawn(Main) /\ Idle
    \/ MainAddReturn
    \/ MainListControllers
    \/ mainPc = "list" /\ ListIter(Main) /\ Idle
    \/ MainListReturn
    \/ MainNotify
    \/ Signal
    \/ MainDeferredClose
    \/ mainPc = "close" /\ CloseBody(Main) /\ Idle
    \/ MainExit
    \/ \E h \in Handles : Running /\ LoopOpen(h) /\ Idle
    \/ \E h \in Handles : Running /\ LoopRLock(h) /\ Idle
    \/ \E h \in Handles : Running /\ LoopCheck(h) /\ Idle
    \/ \E h \in Handles : Running /\ LoopRead(h, ManagerReads) /\ Idle

SpecMain == InitMain /\ [][NextMain]_vars

\* ---------------------------------- event handling, one program at a time
\* Three programs map events onto con.Input: the manager ("multi",
\* multi_controller.go), the single-controller program ("single",
\* unnamed/part_000) and the pulse-mode program ("pulse",
\* no_held_buttons.go).  Here each is reduced to one read loop, one
\* controller and, for pulse mode, its timers.
\* The manager that setup_hub_emulation.sh writes out ("hub") differs from
\* "multi" in its normalizer and takes part where raw values are normalized.
Programs == {"multi", "single", "pulse"}

\* Mutant: the 12-bit rule is tried before the 16-bit rule.
RawNormalizedFour_TwelveBitFirst(value) ==
    IF value >= 0 /\ value <= 255 THEN [num |-> 2 * value - 255, den |-> 255]
    ELSE IF value >= 0 /\ value <= 4095 THEN [num |-> value - 2048, den |-> 2048]
    ELSE IF value >= -32768 /\ value <= 32767 THEN [num |-> value, den |-> 32767]
    ELSE IF value >= 0 /\ value <= 1023 THEN [num |-> value - 512, den |-> 512]
    ELSE [num |-> 2 * value - 255, den |-> 255]

\* The four-branch range inference of the single-controller and the
\* pulse-mode program, before clamping, as a fraction num/den: 8-bit, 16-bit,
\* 12-bit, 10-bit, fallback, in the order of the if-else chain.
RawNormalizedFour(value) ==
    IF value >= 0 /\ value <= 255 THEN [num |-> 2 * value - 255, den |-> 255]
    ELSE IF value >= -32768 /\ value <= 32767 THEN [num |-> value, den |-> 32767]
    ELSE IF value >= 0 /\ value <= 4095 THEN [num |-> value - 2048, den |-> 2048]
    ELSE IF value >= 0 /\ value <= 1023 THEN [num |-> value - 512, den |-> 512]
    ELSE [num |-> 2 * value - 255, den |-> 255]

\* The clamped fraction in units of 1/Unit.  Exact for the divisors 1, 255
\* and 32767; for 2048 and 512, which do not divide Unit, rounded down to
\* the next multiple of 1/Unit.
ScaledFour(r) == r.num * (Unit \div r.den) + (r.num * (Unit % r.den)) \div r.den

NormalizeAxisFour(value) ==
    Deadzone(ScaledFour(Clamp(RawNormalizedFour(value))))

\* Mutant: the 12-bit branch is tried before the 16-bit branch.
RawNormalizedThree_TwelveBitFirst(value) ==
    IF value >= 0 /\ value <= 255 THEN [num |-> 2 * value - 255, den |-> 255]
    ELSE IF value >= 0 /\ value <= 4095 THEN [num |-> value - 2048, den |-> 2048]
    ELSE IF value >= -32768 /\ value <= 32767 THEN [num |-> value, den |-> 32767]
    ELSE [num |-> 2 * value - 255, den |-> 255]

\* The three-branch range inference of the manager that
\* setup_hub_emulation.sh writes out ("hub"), before clamping, as a fraction
\* num/den: 8-bit, 16-bit, 12-bit, fallback.
RawNormalizedThree(value) ==
    IF value >= 0 /\ value <= 255 THEN [num |-> 2 * value - 255, den |-> 255]
    ELSE IF value >= -32768 /\ value <= 32767 THEN [num |-> value, den |-> 32767]
    ELSE IF value >= 0 /\ value <= 4095 THEN [num |-> value - 2048, den |-> 2048]
    ELSE [num |-> 2 * value - 255, den |-> 255]

NormalizeAxisThree(value) ==
    Deadzone(ScaledFour(Clamp(RawNormalizedThree(value))))

\* handleInputEvent of the manager of setup_hub_emulation.sh
handleInputEventHub(in, eventType, code, value) ==
    LevelEvent(in, eventType, code, value, NormalizeAxisThree(value))

\* The programs that normalize a raw axis value.
NormalizePrograms == Programs \cup {"hub"}

\* Mutant: a sync event clears con.Input.
handleInputEventSingle_SyncClears(in, eventType, code, value) ==
    IF eventType = EV_SYN THEN ZeroInput
    ELSE LevelEvent(in, eventType, code, value, NormalizeAxisFour(value))

\* handleInputEvent of the single-controller program
handleInputEventSingle(in, eventType, code, value) ==
    LevelEvent(in, eventType, code, value, NormalizeAxisFour(value))

\* The field that a key code's setInput call is about ("none": no such call).
KeyField(code) ==
    CASE code = 304 -> "A"
      [] code = 305 -> "B"
      [] code = 307 -> "Y"
      [] code = 308 -> "X"
      [] code = 310 -> "L"
      [] code = 311 -> "R"
      [] code = 312 -> "ZL"
      [] code = 313 -> "ZR"
      [] code = 314 -> "Minus"
      [] code = 315 -> "Plus"
      [] code = 316 -> "Home"
      [] OTHER -> "none"

\* The field on which the pulse-mode handleInputEvent calls setInput for
\* this event ("none": on no field): a pressed button, a d-pad axis off 0.
PulsedField(eventType, code, value) ==
    IF eventType = EV_KEY THEN
        IF value > 0 THEN KeyField(code) ELSE "none"
    ELSE IF eventType = EV_ABS /\ code = 16 THEN
        IF value < 0 THEN "DpadLeft" ELSE IF value > 0 THEN "DpadRight" ELSE "none"
    ELSE IF eventType = EV_ABS /\ code = 17 THEN
        IF value < 0 THEN "DpadUp" ELSE IF value > 0 THEN "DpadDown" ELSE "none"
    ELSE "none"

\* handleInputEvent of the pulse-mode program: con.Input when it returns.
\* setInput writes 1 (its timer is scheduled by HandleEvent); the stick
\* presses and the stick axes are written as in level mode.
handleInputEventPulse(in, eventType, code, value) ==
    LET f == PulsedField(eventType, code, value)
        n == NormalizeAxisFour(value)
    IN
    IF f # "none" THEN [in EXCEPT ![f] = 1]
    ELSE IF eventType = EV_KEY THEN
        CASE code = 317 -> [in EXCEPT !.LeftPress = Uint8(value)]
          [] code = 318 -> [in EXCEPT !.RightPress = Uint8(value)]
          [] OTHER -> in
    ELSE IF eventType = EV_ABS THEN
        CASE code = 0 -> [in EXCEPT !.LeftX = n]
          [] code = 1 -> [in EXCEPT !.LeftY = -n]
          [] code = 3 -> [in EXCEPT !.RightX = n]
          [] code = 4 -> [in EXCEPT !.RightY = -n]
          [] OTHER -> in
    ELSE in

\* The field that a textual button code's setInput call is about.
TextKeyField(code) ==
    CASE code = "BTN_SOUTH" -> "A"
      [] code = "BTN_EAST" -> "B"
      [] code = "BTN_WEST" -> "X"
      [] code = "BTN_NORTH" -> "Y"
      [] code = "BTN_TL" -> "L"
      [] code = "BTN_TR" -> "R"
      [] code = "BTN_TL2" -> "ZL"
      [] code = "BTN_TR2" -> "ZR"
      [] code = "BTN_SELECT" -> "Minus"
      [] code = "BTN_START" -> "Plus"
      [] code = "BTN_MODE" -> "Home"
      [] OTHER -> "none"

\* uint8(value) of a float64 in units of 1/Unit, for 0 <= value < 256 (Go
\* leaves the conversion of other values to the implementation; the lines
\* drawn for the stick presses keep to that range).
Uint8OfFloat(value) == (value \div Unit) % 256

\* processControllerInput of the single-controller program: the textual
\* transport, value being the parsed float64 in units of 1/Unit.  The stick
\* axes take the value as it comes.  (state.buttons and state.axes, which
\* the function also writes, are read nowhere in that program.)
processControllerInput(in, eventType, code, value) ==
    LET pressed == value > 0
        f == TextKeyField(code)
        h == Dpad(in.DpadLeft, in.DpadRight, value)
        v == Dpad(in.DpadUp, in.DpadDown, value)
    IN
    IF eventType = "BTN" THEN
        IF f # "none" THEN [in EXCEPT ![f] = setInput(pressed)]
        ELSE CASE code = "BTN_THUMBL" -> [in EXCEPT !.LeftPress = Uint8OfFloat(value)]
               [] code = "BTN_THUMBR" -> [in EXCEPT !.RightPress = Uint8OfFloat(value)]
               [] OTHER -> in
    ELSE IF eventType = "ABS" THEN
        CASE code = "ABS_X" -> [in EXCEPT !.LeftX = value]
          [] code = "ABS_Y" -> [in EXCEPT !.LeftY = -value]
          [] code = "ABS_RX" -> [in EXCEPT !.RightX = value]
          [] code = "ABS_RY" -> [in EXCEPT !.RightY = -value]
          [] code = "ABS_HAT0X" -> [in EXCEPT !.DpadLeft = h[1], !.DpadRight = h[2]]
          [] code = "ABS_HAT0Y" -> [in EXCEPT !.DpadUp = v[1], !.DpadDown = v[2]]
          [] OTHER -> in
    ELSE in

\* What the read loop holds after a read: a 24-byte record of the binary
\* transport, or the three parts of a line of the textual transport.
BinaryEvent(eventType, code, value) ==
    [transport |-> "binary", buffer |-> Encode(eventType, code, value),
     eventType |-> "", code |-> "", value |-> 0]
TextEvent(eventType, code, value) ==
    [transport |-> "text", buffer |-> <<>>,
     eventType |-> eventType, code |-> code, value |-> value]

\* state.axes[code] = value of the pulse-mode program's textual transport
\* (only the four keys that are read again are kept).
AxesAfter(ax, eventType, code, value) ==
    IF eventType = "ABS" /\ code \in AxisNames
    THEN [ax EXCEPT ![code] = value]
    ELSE ax

\* Mutant: setAnalogStick centres the Y axis.
setAnalogStick_CentresOther(in, x, y, axisX, axisY) ==
    [in EXCEPT ![x] = axisX, ![y] = 0]

\* setAnalogStick of the pulse-mode program: both axes of a stick are written.
setAnalogStick(in, x, y, axisX, axisY) == [in EXCEPT ![x] = axisX, ![y] = -axisY]

\* The field on which the pulse-mode processControllerInput calls setInput
\* for this line ("none": on no field).
TextPulsedField(eventType, code, value) ==
    IF eventType = "BTN" THEN
        IF value > 0 THEN TextKeyField(code) ELSE "none"
    ELSE IF eventType = "ABS" /\ code = "ABS_HAT0X" THEN
        IF value < 0 THEN "DpadLeft" ELSE IF value > 0 THEN "DpadRight" ELSE "none"
    ELSE IF eventType = "ABS" /\ code = "ABS_HAT0Y" THEN
        IF value < 0 THEN "DpadUp" ELSE IF value > 0 THEN "DpadDown" ELSE "none"
    ELSE "none"

\* processControllerInput of the pulse-mode program: the textual transport.
\* ax is state.axes before the line; the stick axes are written from
\* state.axes after it.
processControllerInputPulse(in, ax, eventType, code, value) ==
    LET f == TextPulsedField(eventType, code, value)
        a == AxesAfter(ax, eventType, code, value)
    IN
    IF f # "none" THEN [in EXCEPT ![f] = 1]
    ELSE IF eventType = "BTN" THEN
        CASE code = "BTN_THUMBL" -> [in EXCEPT !.LeftPress = Uint8OfFloat(value)]
          [] code = "BTN_THUMBR" -> [in EXCEPT !.RightPress = Uint8OfFloat(value)]
          [] OTHER -> in
    ELSE IF eventType = "ABS" THEN
        CASE code = "ABS_X" -> setAnalogStick(in, "LeftX", "LeftY", value, a["ABS_Y"])
          [] code = "ABS_Y" -> setAnalogStick(in, "LeftX", "LeftY", a["ABS_X"], value)
          [] code = "ABS_RX" -> setAnalogStick(in, "RightX", "RightY", value, a["ABS_RY"])
          [] code = "ABS_RY" -> setAnalogStick(in, "RightX", "RightY", a["ABS_RX"], value)
          [] OTHER -> in
    ELSE in

\* The field whose timer the pulse-mode program starts for event e.
PulsedBy(e) ==
    IF e.transport = "binary"
    THEN PulsedField(DecodeType(e.buffer), DecodeCode(e.buffer),
                     DecodeValue(e.buffer))
    ELSE IF e.transport = "text"
    THEN TextPulsedField(e.eventType, e.code, e.value)
    ELSE "none"

\* con.Input after program p has decoded and handled e, ax being state.axes.
Handled(p, in, ax, e) ==
    IF e.transport = "text"
    THEN IF p = "pulse"
         THEN processControllerInputPulse(in, ax, e.eventType, e.code, e.value)
         ELSE processControllerInput(in, e.eventType, e.code, e.value)
    ELSE LET t == DecodeType(e.buffer)
             c == DecodeCode(e.buffer)
             v == DecodeValue(e.buffer)
         IN CASE p = "multi" -> handleInputEvent(in, t, c, v)
              [] p = "single" -> handleInputEventSingle(in, t, c, v)
              [] p = "pulse" -> handleInputEventPulse(in, t, c, v)
              [] p = "hub" -> handleInputEventHub(in, t, c, v)

\* file.Read(buffer) returns a full record, or scanner.Scan() a well-formed
\* line (the textual transport is modelled for the single-controller
\* program).  A pulse is read only while its field has room for a timer.
ReadEvent(events) ==
    /\ readPc = "read"
    /\ \E e \in events :
          /\ e.transport = "text" => program = "single"
          /\ (program = "pulse" /\ PulsedBy(e) # "none") =>
                timers[PulsedBy(e)] < MaxPending
          /\ event' = e
    /\ readPc' = "handle"
    /\ UNCHANGED <<mgrVars, callVars, loopVars, mainVars, program, conInput,
                   prevInput, timers, axes, historyVars>>

\* The record or line is decoded and handled; in pulse mode setInput has
\* scheduled its callback with time.AfterFunc when the handler returns.
HandleEvent ==
    /\ readPc = "handle"
    /\ prevInput' = conInput
    /\ conInput' = Handled(program, conInput, axes, event)
    /\ axes' = IF program = "pulse" /\ event.transport = "text"
               THEN AxesAfter(axes, event.eventType, event.code, event.value)
               ELSE axes
    /\ timers' = IF program = "pulse" /\ PulsedBy(event) # "none"
                 THEN [timers EXCEPT ![PulsedBy(event)] = @ + 1]
                 ELSE timers
    /\ readPc' = "read"
    /\ UNCHANGED <<mgrVars, callVars, loopVars, mainVars, program, event,
                   historyVars>>

\* A callback of time.AfterFunc runs: *input = 0
TimerFire(f) ==
    /\ timers[f] > 0
    /\ timers' = [timers EXCEPT ![f] = @ - 1]
    /\ conInput' = [conInput EXCEPT ![f] = 0]
    /\ UNCHANGED <<mgrVars, callVars, loopVars, mainVars, program, readPc,
                   event, prevInput, axes, historyVars>>

\* What the read loop holds after a file.Read that returned an error.
FailedRead == [transport |-> "error", buffer |-> <<>>, eventType |-> "",
               code |-> "", value |-> 0]

\* file.Read returns an error: it is logged.  The manager's goroutine then
\* sleeps before it goes on with its loop; the single-controller and the
\* pulse-mode program go on with theirs at once.
ReadFails ==
    /\ readPc = "read"
    /\ event' = FailedRead
    /\ readPc' = IF program = "multi" THEN "sleep" ELSE "read"
    /\ UNCHANGED <<mgrVars, callVars, loopVars, mainVars, program, conInput,
                   prevInput, timers, axes, historyVars>>

\* time.Sleep(100 * time.Millisecond) is over; continue
Backoff ==
    /\ readPc = "sleep"
    /\ readPc' = "read"
    /\ UNCHANGED <<mgrVars, callVars, loopVars, mainVars, program, event,
                   conInput, prevInput, timers, axes, historyVars>>

\* One event, any raw value of the left stick's X axis: every int16 value
\* and values on both sides outside that range.
AxisValues ==
    (-32768..32767) \cup {-1000000000, -40000, -32769, 32768, 40000, 1000000000}
AxisEvents == {BinaryEvent(EV_ABS, 0, v) : v \in AxisValues}

\* A program is about to handle its first event.
InitNormalize ==
    /\ NewManager /\ NoMain
    /\ program \in NormalizePrograms
    /\ readPc = "handle"
    /\ event \in AxisEvents
    /\ conInput = ZeroInput
    /\ prevInput = ZeroInput
    /\ timers = NoTimers
    /\ axes = NoAxes

NextNormalize == HandleEvent

SpecNormalize == InitNormalize /\ [][NextNormalize]_vars

\* Sequences of events: presses, an auto-repeat and releases of A and of
\* the stick presses, stick axes inside and outside the inferred ranges,
\* d-pad left, and lines of the textual transport.
SeqEvents ==
    {BinaryEvent(EV_KEY, 304, 1), BinaryEvent(EV_KEY, 304, 0),
     BinaryEvent(EV_KEY, 317, 1), BinaryEvent(EV_KEY, 317, 2),
     BinaryEvent(EV_KEY, 317, 0), BinaryEvent(EV_KEY, 318, -1),
     BinaryEvent(EV_ABS, 0, 200), BinaryEvent(EV_ABS, 0, 40000),
     BinaryEvent(EV_ABS, 4, -40000),
     BinaryEvent(EV_ABS, 16, -1),
     TextEvent("BTN", "BTN_SOUTH", Unit), TextEvent("ABS", "ABS_X", 2 * Unit),
     TextEvent("ABS", "ABS_HAT0X", -Unit)}

\* A program has opened its input device and is about to read.
InitEvents ==
    /\ NewManager /\ NoMain
    /\ program \in Programs
    /\ readPc = "read"
    /\ event = NoEvent
    /\ conInput = ZeroInput
    /\ prevInput = ZeroInput
    /\ timers = NoTimers
    /\ axes = NoAxes

NextEvents ==
    \/ ReadEvent(SeqEvents)
    \/ HandleEvent
    \/ \E f \in PulseFields : TimerFire(f)

SpecEvents == InitEvents /\ [][NextEvents]_vars

\* Sequences of d-pad events: both axes to either side and back to 0.
DpadEvents ==
    {BinaryEvent(EV_ABS, code, value) : code \in {16, 17}, value \in {-1, 0, 1}}

NextDpad ==
    \/ ReadEvent(DpadEvents)
    \/ HandleEvent
    \/ \E f \in PulseFields : TimerFire(f)

SpecDpad == InitEvents /\ [][NextDpad]_vars

\* Reads that fail among reads of a press and a release of A and of a
\* value of the left stick.
RetryEvents ==
    {BinaryEvent(EV_KEY, 304, 1), BinaryEvent(EV_KEY, 304, 0),
     BinaryEvent(EV_ABS, 0, 200)}

NextRetry ==
    \/ ReadEvent(RetryEvents)
    \/ ReadFails
    \/ Backoff
    \/ HandleEvent
    \/ \E f \in PulseFields : TimerFire(f)

SpecRetry == InitEvents /\ [][NextRetry]_vars

\* One event of every kind, handled in a state with nothing held or in one
\* with everything held.
\* Records: the thirteen mapped key codes and two others, released and
\* pressed; the four stick axes; the d-pad axes; the trigger axes and an
\* axis no program knows; a sync, a relative and a miscellaneous event.
TableRecords ==
    {BinaryEvent(EV_KEY, code, value) :
        code \in {304, 305, 306, 307, 308} \cup (310..319), value \in {0, 1}}
    \cup {BinaryEvent(EV_ABS, code, value) :
        code \in {0, 1, 3, 4}, value \in {0, 200, -20000}}
    \cup {BinaryEvent(EV_ABS, code, value) : code \in {16, 17}, value \in {-1, 0, 1}}
    \cup {BinaryEvent(EV_ABS, code, 200) : code \in {2, 5, 40}}
    \cup {BinaryEvent(EV_SYN, 0, 0), BinaryEvent(2, 0, 5), BinaryEvent(4, 4, 589825)}

\* Lines: the thirteen mapped button names and one other, the four stick
\* axes, the d-pad axes, a trigger axis, and a type that is no "BTN" or "ABS".
TableLines ==
    {TextEvent("BTN", code, value) :
        code \in {"BTN_SOUTH", "BTN_EAST", "BTN_WEST", "BTN_NORTH", "BTN_TL",
                  "BTN_TR", "BTN_TL2", "BTN_TR2", "BTN_SELECT", "BTN_START",
                  "BTN_MODE", "BTN_THUMBL", "BTN_THUMBR", "BTN_C"},
        value \in {0, Unit}}
    \cup {TextEvent("ABS", code, value) :
        code \in AxisNames, value \in {Unit \div 5, -Unit}}
    \cup {TextEvent("ABS", code, value) :
        code \in {"ABS_HAT0X", "ABS_HAT0Y"}, value \in {-Unit, 0, Unit}}
    \cup {TextEvent("ABS", "ABS_Z", Unit), TextEvent("SYN", "SYN_REPORT", 0)}

\* Everything held: the buttons and the stick presses down, both sticks to
\* the lower right, the d-pad to the lower right.
HeldInput ==
    [ A |-> 1, B |-> 1, X |-> 1, Y |-> 1, L |-> 1, R |-> 1, ZL |-> 1, ZR |-> 1,
      Minus |-> 1, Plus |-> 1, Home |-> 1,
      LeftPress |-> 1, RightPress |-> 1,
      LeftX |-> Unit, LeftY |-> -Unit, RightX |-> Unit, RightY |-> -Unit,
      DpadUp |-> 0, DpadDown |-> 1, DpadLeft |-> 0, DpadRight |-> 1 ]

\* In pulse mode a field that is 1 has its callback pending.
HeldTimers == [f \in PulseFields |-> HeldInput[f]]

\* state.axes when the textual transport has brought the sticks there.
HeldAxes == [a \in AxisNames |-> Unit]

\* A program is about to handle an event of its transport.
InitTable ==
    /\ NewManager /\ NoMain
    /\ program \in Programs
    /\ readPc = "handle"
    /\ event \in TableRecords \cup TableLines
    /\ event.transport = "text" => program \in {"single", "pulse"}
    /\ conInput \in {ZeroInput, HeldInput}
    /\ prevInput = ZeroInput
    /\ timers = IF program = "pulse" /\ conInput = HeldInput
                THEN HeldTimers ELSE NoTimers
    /\ axes = IF program = "pulse" /\ event.transport = "text"
                 /\ conInput = HeldInput
              THEN HeldAxes ELSE NoAxes

NextTable == HandleEvent

SpecTable == InitTable /\ [][NextTable]_vars

\* ------------------------- readControllerInput with its reads recorded
\* One session of the manager: main's caller adds player 1, the goroutine
\* runs, and what each of its reads returns is appended to consumed.

\* The goroutine of h makes a read out of reads, while fewer than max are
\* recorded.
RecordedRead(h, reads, max) ==
    /\ Len(consumed[h]) < max
    /\ \E r \in reads :
          /\ LoopRead(h, {r})
          /\ consumed' = [consumed EXCEPT ![h] = Append(@, r)]
    /\ UNCHANGED <<mainVars, handlerVars>>

\* A record as the kernel writes it: the first 16 bytes are the timestamp.
Stamped(stamp, buffer) ==
    [i \in 1..eventSize |-> IF i <= 16 THEN stamp ELSE buffer[i]]
StampedRecord(stamp, eventType, code, value) ==
    [failed |-> FALSE, n |-> eventSize,
     buffer |-> Stamped(stamp, Encode(eventType, code, value))]

\* A read that returns n bytes; the buffer holds the bytes of a record.
PartialRead(n, eventType, code, value) ==
    [failed |-> FALSE, n |-> n, buffer |-> Encode(eventType, code, value)]

\* Timestamp bytes, and triples at both ends of each field's range.  (A
\* stick axis is kept to values that the normalization can be computed
\* for in 32 bits.)
Stamps == {0, 255}
DecodeTypes == {EV_KEY, EV_ABS, 256, 65535}
DecodeCodes == {0, 16, 304, 317, 65535}
DecodeValues ==
    {0, 1, -1, 255, 256, -256, 32767, -32768, 65536, -16777216,
     2147483647, -2147483647 - 1}
DecodeTriples ==
    {tr \in DecodeTypes \X DecodeCodes \X DecodeValues :
        (tr[1] = EV_ABS /\ tr[2] \in {0, 1, 3, 4}) =>
            (tr[3] >= -32768 /\ tr[3] <= 65536)}
DecodeReads ==
    {StampedRecord(s, tr[1], tr[2], tr[3]) : s \in Stamps, tr \in DecodeTriples}
    \cup {PartialRead(n, EV_KEY, 304, 1) : n \in {1, 8, 23}}
    \cup {PartialRead(n, EV_ABS, 0, 255) : n \in {1, 8, 23}}

NextDecode ==
    \/ \E hd \in ExistingHidg, dev \in ExistingInputs :
          AddLock(Main, MinPlayer, hd, dev) /\ Idle
    \/ AddCheck(Main) /\ Idle
    \/ AddConnect(Main) /\ Idle
    \/ AddRegister(Main) /\ Idle
    \/ AddSpawn(Main) /\ Idle
    \/ Return(Main) /\ Idle
    \/ \E h \in Handles : LoopOpen(h) /\ Idle
    \/ \E h \in Handles : LoopRLock(h) /\ Idle
    \/ \E h \in Handles : LoopCheck(h) /\ Idle
    \/ \E h \in Handles : RecordedRead(h, DecodeReads, MaxDecoded)

SpecDecode == Init /\ [][NextDecode]_vars

\* Errors, short reads, presses and releases of A, the left stick and the
\* d-pad: the effect of most pairs depends on their order.
OrderReads ==
    {ReadError, ShortRead, Record(EV_KEY, 304, 1), Record(EV_KEY, 304, 0),
     Record(EV_ABS, 0, 200), Record(EV_ABS, 16, 1), Record(EV_ABS, 16, -1)}

NextOrder ==
    \/ \E hd \in ExistingHidg, dev \in ExistingInputs :
          AddLock(Main, MinPlayer, hd, dev) /\ Idle
    \/ AddCheck(Main) /\ Idle
    \/ AddConnect(Main) /\ Idle
    \/ AddRegister(Main) /\ Idle
    \/ AddSpawn(Main) /\ Idle
    \/ Return(Main) /\ Idle
    \/ \E h \in Handles : LoopOpen(h) /\ Idle
    \/ \E h \in Handles : LoopRLock(h) /\ Idle
    \/ \E h \in Handles : LoopCheck(h) /\ Idle
    \/ \E h \in Handles : RecordedRead(h, OrderReads, MaxConsumed)

SpecOrder == Init /\ [][NextOrder]_vars

\* ====================================================================
\* Properties
\* ====================================================================

\* The controllers whose read goroutine has been started.
Started == {h \in Handles : loopPc[h] # "none"}

\* A step that leaves the registry, the controllers' connections and the
\* set of started goroutines as they were.
RegistryUnchanged ==
    /\ controllers' = controllers
    /\ devices' = devices
    /\ nextHandle' = nextHandle
    /\ closeCount' = closeCount
    /\ Started' = Started

\* C1: an AddController call whose player number lies outside 1..8 returns
\* the range error; while it runs the registry, the connections and the
\* started goroutines do not change, and the call never gets to Connect, to
\* registering or to starting a read loop.
C1_RangeErrorLeavesRegistry ==
    [][\A c \in Callers :
          (arg[c].op = "add" /\ arg[c].playerNum \notin 1..8) =>
             /\ RegistryUnchanged
             /\ pc'[c] \in {"add_check", "add_ret", "idle"}
             /\ pc'[c] = "add_ret" => err'[c] = "range"
             /\ arg'[c].playerNum \notin DOMAIN controllers'
             /\ arg'[c].playerNum \notin DOMAIN devices']_vars

\* C1 witness: a call with a player number outside 1..8 is about to return
\* its error.
C1_Witness ==
    \E c \in Callers :
        /\ pc[c] = "add_ret"
        /\ arg[c].playerNum \notin 1..8
        /\ err[c] = "range"

\* C2: an AddController call that finds its slot registered returns the
\* duplicate error; from its check to its return the registry, the
\* connections and the started goroutines do not change, so the slot keeps
\* the controller registered first and no second read loop is started.
C2_DuplicateLeavesRegistry ==
    [][\A c \in Callers :
          (\/ pc[c] = "add_check" /\ arg[c].playerNum \in DOMAIN controllers
           \/ pc[c] = "add_ret" /\ err[c] = "duplicate") =>
             /\ RegistryUnchanged
             /\ pc'[c] \in {"add_check", "add_ret", "idle"}
             /\ pc'[c] = "add_ret" =>
                   /\ err'[c] = "duplicate"
                   /\ arg'[c].playerNum \in DOMAIN controllers'
                   /\ controllers'[arg'[c].playerNum] = controllers[arg[c].playerNum]]_vars

\* C2 witness: a call for a registered slot is about to return the
\* duplicate error.
C2_Witness ==
    \E c \in Callers :
        /\ pc[c] = "add_ret"
        /\ err[c] = "duplicate"
        /\ arg[c].playerNum \in DOMAIN controllers

\* C3: the body of RemoveController for a slot that is not registered
\* changes nothing: no controller is closed, both maps, every read loop and
\* every controller state stay as they were, and nothing is reported.
C3_RemoveAbsentIsNoOp ==
    [][\A c \in Callers :
          (/\ pc[c] = "remove_body"
           /\ arg[c].playerNum \notin DOMAIN controllers
           /\ pc'[c] = "remove_ret") =>
             /\ RegistryUnchanged
             /\ loopPc' = loopPc
             /\ loopArg' = loopArg
             /\ input' = input
             /\ err'[c] = "none"]_vars

\* C3 witness: a RemoveController has run its body while another slot is
\* registered and no controller has ever been closed, so its slot was absent.
C3_Witness ==
    \E c \in Callers :
        /\ pc[c] = "remove_ret"
        /\ DOMAIN controllers # {}
        /\ \A h \in Handles : closeCount[h] = 0

\* C4: Close is idempotent.  From every state in which the mutex is free,
\* Close twice leaves what Close once leaves: an empty registry and every
\* controller that was brought up closed exactly once; and when the body of
\* Close has run, that is the state.
C4_CloseIdempotent ==
    LET once == CloseApply(controllers, devices, closeCount)
        twice == CloseApply(once.controllers, once.devices, once.closeCount)
    IN /\ mutex.writer = NoTask =>
            /\ twice = once
            /\ DOMAIN once.controllers = {}
            /\ DOMAIN once.devices = {}
            /\ \A h \in Handles : h < nextHandle => once.closeCount[h] = 1
       /\ \A c \in Callers : pc[c] = "close_ret" =>
            /\ DOMAIN controllers = {}
            /\ DOMAIN devices = {}
            /\ \A h \in Handles : h < nextHandle => closeCount[h] = 1

\* C4 witness: Close has run its body after controllers were brought up,
\* and each of them is closed once.
C4_Witness ==
    \E c \in Callers :
        /\ pc[c] = "close_ret"
        /\ nextHandle > 2
        /\ \A h \in Handles : h < nextHandle => closeCount[h] = 1

\* C5: an AddController call whose Connect fails returns the connect error;
\* from the Connect to the return the registry, the connections and the
\* started goroutines do not change, and its slot is in neither map.
C5_ConnectFailureLeavesRegistry ==
    [][\A c \in Callers :
          (\/ pc[c] = "add_connect" /\ arg[c].hidgDevice \notin ExistingHidg
           \/ pc[c] = "add_ret" /\ err[c] = "connect") =>
             /\ RegistryUnchanged
             /\ pc'[c] \in {"add_connect", "add_ret", "idle"}
             /\ pc'[c] = "add_ret" =>
                   /\ err'[c] = "connect"
                   /\ arg'[c].playerNum \notin DOMAIN controllers'
                   /\ arg'[c].playerNum \notin DOMAIN devices']_vars

\* C5 witness: a call whose Connect failed is about to return while another
\* session is registered.
C5_Witness ==
    \E c \in Callers :
        /\ pc[c] = "add_ret"
        /\ err[c] = "connect"
        /\ DOMAIN controllers # {}

\* C6 (as claimed): when the input source of a session being added cannot
\* be opened, the add call fails, and once the open has failed and no
\* manager operation is under way the slot is not registered and the
\* controller that had been connected is closed.
C6_OpenFailureAbortsAdd ==
    /\ \A c \in Callers, h \in Handles :
          (/\ pc[c] = "add_ret"
           /\ con[c] = h
           /\ loopPc[h] = "open_failed") => err[c] # "none"
    /\ \A h \in Handles :
          (/\ loopPc[h] = "open_failed"
           /\ \A c \in Callers : pc[c] = "idle") =>
             /\ h \notin Registered(controllers)
             /\ closeCount[h] = 1

\* C7 (as claimed): an AddController call whose source path does not exist
\* never gets past Connect, and returns the range, the duplicate or a
\* validation error.
C7_MissingSourceFailsValidation ==
    \A c \in Callers :
        (arg[c].op = "add" /\ arg[c].inputDevice \notin ExistingInputs) =>
            /\ pc[c] \notin {"add_register", "add_spawn"}
            /\ pc[c] = "add_ret" => err[c] \in {"range", "duplicate", "validation"}

\* C8 (as claimed): the first membership check a read loop makes after its
\* controller was removed from the registry (and closed) ends the loop.
C8_LoopStopsAtNextCheck ==
    [][\A h \in Handles :
          (loopPc[h] = "locked" /\ closeCount[h] > 0) =>
              loopPc'[h] \in {"locked", "stopped"}]_vars

\* C9: when ListControllers has finished its range over the map and still
\* holds the read lock, `players` holds exactly the registered slots, each
\* once; while it ranges, it holds registered slots only, each once.
C9_ListIsSnapshot ==
    \A c \in Callers :
        /\ pc[c] \in {"list_iter", "list_ret"} =>
              /\ Range(players[c]) \subseteq DOMAIN controllers
              /\ Cardinality(Range(players[c])) = Len(players[c])
        /\ pc[c] = "list_ret" => Range(players[c]) = DOMAIN controllers

\* C9 witness: ListControllers is about to return with slots 1 and 2.
C9_Witness ==
    \E c \in Callers :
        /\ pc[c] = "list_ret"
        /\ Range(players[c]) = {1, 2}

\* C10: sessions are isolated.  A read step of one goroutine changes the
\* state of its own controller only and nothing of the registry; the body
\* of RemoveController(i) leaves, for every other registered slot, the
\* registry entry, the controller (not closed), its goroutine and its
\* state as they were; so does every step of an AddController that fails.
C10_SessionsIsolated ==
    [][/\ \A h \in Handles :
            (loopPc[h] = "read" /\ loopPc'[h] # "read") =>
               /\ \A g \in Handles \ {h} :
                     /\ input'[g] = input[g]
                     /\ loopPc'[g] = loopPc[g]
               /\ RegistryUnchanged
       /\ \A c \in Callers :
            (pc[c] = "remove_body" /\ pc'[c] = "remove_ret") =>
               /\ \A j \in DOMAIN controllers \ {arg[c].playerNum} :
                     /\ j \in DOMAIN controllers' /\ j \in DOMAIN devices'
                     /\ controllers'[j] = controllers[j]
                     /\ devices'[j] = devices[j]
                     /\ closeCount'[controllers[j]] = closeCount[controllers[j]]
               /\ loopPc' = loopPc /\ loopArg' = loopArg /\ input' = input
       /\ \A c \in Callers :
            (/\ arg[c].op = "add"
             /\ pc'[c] # pc[c]
             /\ \/ pc'[c] = "add_ret" /\ err'[c] # "none"
                \/ pc[c] = "add_ret" /\ err[c] # "none") =>
               /\ RegistryUnchanged
               /\ loopPc' = loopPc /\ loopArg' = loopArg /\ input' = input]_vars

\* C10 witness: slot 1 has been removed and its controller closed while
\* slot 2's goroutine goes on reading and has set A on its own controller
\* only.
C10_Witness ==
    /\ DOMAIN controllers = {2}
    /\ closeCount[1] = 1
    /\ controllers[2] = 2
    /\ loopPc[2] = "read"
    /\ input[2].A = 1
    /\ input[1].A = 0

\* The callers between Lock() and the deferred Unlock() of AddController,
\* RemoveController or Close.
WritersInside ==
    {c \in Callers : pc[c] \in {"add_check", "add_connect", "add_register",
                                "add_spawn", "add_ret", "remove_body",
                                "remove_ret", "close_body", "close_ret"}}

\* The callers between RLock() and RUnlock() of ListControllers, and the
\* goroutines between RLock() and RUnlock() of their membership check.
ReadersInside ==
    {c \in Callers : pc[c] \in {"list_iter", "list_ret"}}
        \cup {h \in Handles : loopPc[h] = "locked"}

\* C11: never two writers, nor a writer and a reader, inside the registry
\* critical section together (several readers may be).
C11_RegistryMutualExclusion ==
    /\ Cardinality(WritersInside) <= 1
    /\ WritersInside # {} => ReadersInside = {}

\* C11 witness: ListControllers and both goroutines' membership checks are
\* inside the critical section at once.
C11_Witness ==
    /\ WritersInside = {}
    /\ \E c \in Callers : pc[c] = "list_iter"
    /\ \A h \in Handles : loopPc[h] = "locked"

\* C12 (as claimed): no task holds the registry lock while it performs a
\* blocking device read or a protocol call: not the caller whose step is
\* controller.Connect(), not anybody while a controller's Close() runs, and
\* not the goroutine whose step is file.Read.
C12_NoCallUnderLock ==
    [][/\ \A c \in Callers :
            (pc[c] = "add_connect" /\ pc'[c] # "add_connect") =>
                mutex.writer # c
       /\ closeCount' # closeCount => mutex.writer = NoTask
       /\ \A h \in Handles :
            (loopPc[h] = "read" /\ loopPc'[h] # "read") =>
                h \notin mutex.loops]_vars

\* C13 (as claimed): when the process has ended, by a signal or by main
\* returning, Close has run: the registry is empty and every controller
\* that was registered has been closed.
C13_ExitClosesAll ==
    ~Running =>
        /\ DOMAIN controllers = {}
        /\ \A h \in Handles : loopPc[h] # "none" => closeCount[h] > 0

\* The stick axes and the digital fields of con.Input.
StickFields == {"LeftX", "LeftY", "RightX", "RightY"}
DigitalFields == PulseFields \cup {"LeftPress", "RightPress"}

\* C14 (as claimed): whatever the events and the transport, the four stick
\* axes lie in [-1, 1].
C14_SticksInRange ==
    \A f \in StickFields : conInput[f] >= -Unit /\ conInput[f] <= Unit

\* C15 (as claimed): whatever the events and their values, every digital
\* field (buttons, stick presses, d-pad directions) is 0 or 1.
C15_DigitalZeroOrOne ==
    \A f \in DigitalFields : conInput[f] \in {0, 1}

\* The raw value of the event the read loop has handled last, and whether
\* there is one.
HandledValue == DecodeValue(event.buffer)
HasHandled == readPc = "read" /\ event.transport = "binary"

\* C16: a raw axis value v in 0..255 is normalized to (v - 127.5)/127.5,
\* then the deadzone: 0 gives -1, 255 gives 1, and exactly 122..133 give 0.
C16_EightBitRule ==
    (HasHandled /\ HandledValue \in 0..255) =>
        LET v == HandledValue
            x == (2 * v - 255) * 32767
        IN /\ conInput.LeftX = IF v \in 122..133 THEN 0 ELSE x
           /\ v = 0 => conInput.LeftX = -Unit
           /\ v = 255 => conInput.LeftX = Unit
           /\ conInput.LeftX >= -Unit /\ conInput.LeftX <= Unit

\* C16 witness: the single-controller program has handled 122, the lowest
\* value inside the deadzone, and the manager 255.
C16_Witness ==
    /\ HasHandled
    /\ \/ program = "single" /\ HandledValue = 122 /\ conInput.LeftX = 0
       \/ program = "multi" /\ HandledValue = 255 /\ conInput.LeftX = Unit

\* v/32767 clamped to [-1, 1] and then through the deadzone, in 1/Unit
SixteenBit(v) ==
    LET x == IF v < -32767 THEN -Unit ELSE IF v > 32767 THEN Unit ELSE v * 255
    IN IF 20 * x > -Unit /\ 20 * x < Unit THEN 0 ELSE x

\* C17 (as claimed): every raw axis value v in -32768..32767 is normalized
\* to v/32767, clamped to [-1, 1], then the deadzone.
C17_SixteenBitRule ==
    (HasHandled /\ HandledValue >= -32768 /\ HandledValue <= 32767) =>
        conInput.LeftX = SixteenBit(HandledValue)

\* C17: every raw axis value v in -32768..32767 that is not in 0..255 is
\* normalized to v/32767, clamped to [-1, 1], then the deadzone.
C17_SixteenBitOutsideEightBit ==
    (/\ HasHandled
     /\ HandledValue >= -32768 /\ HandledValue <= 32767
     /\ (HandledValue < 0 \/ HandledValue > 255)) =>
        conInput.LeftX = SixteenBit(HandledValue)

\* C17 witness: -32768 has been handled and clamped to -1.
C17_Witness ==
    /\ HasHandled
    /\ HandledValue = -32768
    /\ conInput.LeftX = -Unit

\* The ranges of the rules in the order of precedence; past the last one
\* comes the fallback.
RuleRanges == <<[lo |-> 0, hi |-> 255], [lo |-> -32768, hi |-> 32767],
                [lo |-> 0, hi |-> 4095], [lo |-> 0, hi |-> 1023]>>
FirstRule(v) ==
    LET hits == {i \in 1..Len(RuleRanges) :
                    v >= RuleRanges[i].lo /\ v <= RuleRanges[i].hi}
    IN IF hits = {} THEN Len(RuleRanges) + 1
       ELSE CHOOSE i \in hits : \A j \in hits : i <= j
\* rule i applied to v, before clamping
RuleValue(i, v) ==
    CASE i = 1 -> [num |-> 2 * v - 255, den |-> 255]
      [] i = 2 -> [num |-> v, den |-> 32767]
      [] i = 3 -> [num |-> v - 2048, den |-> 2048]
      [] i = 4 -> [num |-> v - 512, den |-> 512]
      [] OTHER -> [num |-> 2 * v - 255, den |-> 255]

\* C18: in the single-controller and the pulse-mode program a raw value is
\* normalized by the first of the rules 8-bit, 16-bit, 12-bit, 10-bit whose
\* range contains it, by the fallback if none does: 200 by the 8-bit rule,
\* 1000 and 2000 by the 16-bit rule (1000/32767 is inside the deadzone; the
\* 12-bit rule would give -0.51 for 1000 and 0 for 2000).
C18_RulePrecedence ==
    (HasHandled /\ program \in {"single", "pulse"}) =>
        LET v == HandledValue
        IN /\ conInput.LeftX =
                 Deadzone(ScaledFour(Clamp(RuleValue(FirstRule(v), v))))
           /\ v = 200 => conInput.LeftX = (2 * 200 - 255) * 32767
           /\ v = 1000 => conInput.LeftX = 0
           /\ v = 2000 => conInput.LeftX = 2000 * 255

\* C18 witness: the pulse-mode program has handled 2000 by the 16-bit rule.
C18_Witness ==
    /\ HasHandled
    /\ program = "pulse"
    /\ HandledValue = 2000
    /\ conInput.LeftX = 2000 * 255

\* C19 (as claimed): in pulse mode a digital field that is not 0 has a
\* timer pending that will reset it, and handling a release (value 0 of a
\* key event) changes no field.
C19_PulseResets ==
    [][program = "pulse" =>
          /\ \A f \in DigitalFields :
                conInput'[f] # 0 => (f \in PulseFields /\ timers'[f] > 0)
          /\ (/\ readPc = "handle" /\ readPc' = "read"
              /\ DecodeType(event.buffer) = EV_KEY
              /\ DecodeValue(event.buffer) = 0) => conInput' = conInput]_vars

\* A d-pad axis back at 0 has been handled; with both of its directions
\* at 0 already, con.Input is as it was.
DpadCleared(code, neg, pos) ==
    (readPc = "read" /\ event = BinaryEvent(EV_ABS, code, 0)) =>
        /\ conInput[neg] = 0 /\ conInput[pos] = 0
        /\ (prevInput[neg] = 0 /\ prevInput[pos] = 0) => conInput = prevInput

\* C20 (as claimed): in every program, when value 0 on code 16 has been
\* handled, Left and Right are 0, and handling it with both at 0 already
\* leaves con.Input as it was; likewise code 17 with Up and Down.
C20_DpadZeroClears ==
    /\ DpadCleared(16, "DpadLeft", "DpadRight")
    /\ DpadCleared(17, "DpadUp", "DpadDown")

\* C20: in the level-mode programs, when value 0 on code 16 has been
\* handled, Left and Right are 0, and handling it with both at 0 already
\* leaves con.Input as it was; likewise code 17 with Up and Down.
C20_DpadZeroClearsLevel ==
    program \in {"multi", "single"} =>
        /\ DpadCleared(16, "DpadLeft", "DpadRight")
        /\ DpadCleared(17, "DpadUp", "DpadDown")

\* C20 witness: the manager's handler has cleared Right on value 0 of code
\* 16 while Up stays set.
C20_Witness ==
    /\ program = "multi"
    /\ readPc = "read"
    /\ event = BinaryEvent(EV_ABS, 16, 0)
    /\ prevInput.DpadRight = 1
    /\ conInput.DpadRight = 0
    /\ conInput.DpadUp = 1

\* The button field that a digital event is mapped to ("none": the event
\* is not a digital event of a mapped code).
ButtonOf(e) ==
    IF e.transport = "binary" /\ DecodeType(e.buffer) = EV_KEY THEN
        CASE DecodeCode(e.buffer) = 317 -> "LeftPress"
          [] DecodeCode(e.buffer) = 318 -> "RightPress"
          [] OTHER -> KeyField(DecodeCode(e.buffer))
    ELSE IF e.transport = "text" /\ e.eventType = "BTN" THEN
        CASE e.code = "BTN_THUMBL" -> "LeftPress"
          [] e.code = "BTN_THUMBR" -> "RightPress"
          [] OTHER -> TextKeyField(e.code)
    ELSE "none"

\* The value of an event, of either transport.
ValueOf(e) == IF e.transport = "binary" THEN DecodeValue(e.buffer) ELSE e.value

\* The step is the handling of the event that has been read.
Handling == readPc = "handle" /\ readPc' = "read"

\* In level mode a button field is 0 before the first event, is set by the
\* handling of a digital event of its code to 1 for a value > 0 and to 0
\* for a value <= 0, and is left alone by every other step.
FollowsLastEvent(f) ==
    /\ event = NoEvent => conInput[f] = 0
    /\ (Handling /\ ButtonOf(event) = f) =>
           conInput'[f] = (IF ValueOf(event) > 0 THEN 1 ELSE 0)
    /\ ~(Handling /\ ButtonOf(event) = f) => conInput'[f] = conInput[f]

\* C21 (as claimed): in level mode every button field, the stick presses
\* among them, is 1 if the most recent digital event of its code had a
\* value > 0, and 0 if it had a value <= 0 or there has been none.
C21_ButtonFollowsLastEvent ==
    [][(program \in {"multi", "single"}) =>
          \A f \in ButtonNames \cup {"LeftPress", "RightPress"} :
              FollowsLastEvent(f)]_vars

\* The fields of con.Input.
Fields == DOMAIN ZeroInput

\* The routing table: a digital code and its field, an analog code and its
\* field with the sign the normalized value is stored with.
DigitalTable ==
    (304 :> "A") @@ (305 :> "B") @@ (307 :> "Y") @@ (308 :> "X") @@
    (310 :> "L") @@ (311 :> "R") @@ (312 :> "ZL") @@ (313 :> "ZR") @@
    (314 :> "Minus") @@ (315 :> "Plus") @@ (316 :> "Home") @@
    (317 :> "LeftPress") @@ (318 :> "RightPress")
AnalogTable ==
    (0 :> [field |-> "LeftX", sign |-> 1]) @@
    (1 :> [field |-> "LeftY", sign |-> -1]) @@
    (3 :> [field |-> "RightX", sign |-> 1]) @@
    (4 :> [field |-> "RightY", sign |-> -1])

\* The normalized value of a raw axis value in each program.
Normalized(p, v) == IF p = "multi" THEN NormalizeAxis(v) ELSE NormalizeAxisFour(v)

\* con.Input is as before the event but for field f.
OnlyChanged(f) == \A g \in Fields \ {f} : conInput[g] = prevInput[g]

\* C22: in every program a record of a digital code in the table changes
\* no field but the one the table gives, which is 1 after a press (and, in
\* level mode, 0 after a release); a record of analog code 0 or 3 stores
\* the normalized value in LeftX or RightX, one of code 1 or 4 its negation
\* in LeftY or RightY, and changes no other field; type 3, code 1, value
\* 200 gives LeftY = -(200 - 127.5)/127.5 = -145/255.
C22_RoutingTable ==
    HasHandled =>
        LET t == DecodeType(event.buffer)
            c == DecodeCode(event.buffer)
            v == DecodeValue(event.buffer)
        IN
        /\ (t = EV_KEY /\ c \in DOMAIN DigitalTable) =>
              /\ OnlyChanged(DigitalTable[c])
              /\ v = 1 => conInput[DigitalTable[c]] = 1
              /\ (v = 0 /\ program # "pulse") => conInput[DigitalTable[c]] = 0
        /\ (t = EV_ABS /\ c \in DOMAIN AnalogTable) =>
              /\ OnlyChanged(AnalogTable[c].field)
              /\ conInput[AnalogTable[c].field] =
                    AnalogTable[c].sign * Normalized(program, v)
        /\ (t = EV_ABS /\ c = 1 /\ v = 200) => 255 * conInput.LeftY = -145 * Unit

\* C22 witness: the pulse-mode program has handled type 3, code 1, value
\* 200 with the left stick held down: LeftY is -145/255.
C22_Witness ==
    /\ program = "pulse"
    /\ HasHandled
    /\ event = BinaryEvent(EV_ABS, 1, 200)
    /\ prevInput.LeftY = -Unit
    /\ conInput.LeftY = -145 * 32767
    /\ conInput.LeftX = Unit

\* A record whose type is neither digital nor analog, or whose code is not
\* in the mapping table of its type.
Unmapped(e) ==
    /\ e.transport = "binary"
    /\ \/ DecodeType(e.buffer) \notin {EV_KEY, EV_ABS}
       \/ /\ DecodeType(e.buffer) = EV_KEY
          /\ DecodeCode(e.buffer) \notin DOMAIN DigitalTable
       \/ /\ DecodeType(e.buffer) = EV_ABS
          /\ DecodeCode(e.buffer) \notin DOMAIN AnalogTable \cup {16, 17}

\* C23: in every program, handling a record whose type is not 1 or 3 (a
\* sync record among them) or whose code is not in the table of its type
\* leaves con.Input as it was, starts no timer, and the loop goes on to
\* its next read.
C23_UnmappedIsNoOp ==
    [][(readPc = "handle" /\ Unmapped(event)) =>
          /\ conInput' = conInput
          /\ timers' = timers
          /\ readPc' = "read"]_vars

\* C23 witness: the single-controller program has handled a sync record
\* with everything held, and is about to read again.
C23_Witness ==
    /\ program = "single"
    /\ readPc = "read"
    /\ event = BinaryEvent(EV_SYN, 0, 0)
    /\ conInput = HeldInput

\* The fields of con.Input that differ from what they were when the
\* handling of the last event began.
ChangedFields == {f \in Fields : conInput[f] # prevInput[f]}

\* The fields an event's code is mapped to: one for a button, a stick
\* press or a stick axis, the two directions for a d-pad axis.
TextAxisField(code) ==
    CASE code = "ABS_X" -> {"LeftX"}
      [] code = "ABS_Y" -> {"LeftY"}
      [] code = "ABS_RX" -> {"RightX"}
      [] code = "ABS_RY" -> {"RightY"}
      [] code = "ABS_HAT0X" -> {"DpadLeft", "DpadRight"}
      [] code = "ABS_HAT0Y" -> {"DpadUp", "DpadDown"}
      [] OTHER -> {}
MappedFields(e) ==
    IF ButtonOf(e) # "none" THEN {ButtonOf(e)}
    ELSE IF e.transport = "text" THEN
        IF e.eventType = "ABS" THEN TextAxisField(e.code) ELSE {}
    ELSE IF e.transport = "binary" /\ DecodeType(e.buffer) = EV_ABS THEN
        CASE DecodeCode(e.buffer) \in DOMAIN AnalogTable ->
                {AnalogTable[DecodeCode(e.buffer)].field}
          [] DecodeCode(e.buffer) = 16 -> {"DpadLeft", "DpadRight"}
          [] DecodeCode(e.buffer) = 17 -> {"DpadUp", "DpadDown"}
          [] OTHER -> {}
    ELSE {}

\* An event of a d-pad axis, of either transport.
IsDpad(e) == MappedFields(e) \subseteq {"DpadUp", "DpadDown", "DpadLeft", "DpadRight"}
                /\ MappedFields(e) # {}

\* C24 (as claimed): when an event has been handled, at most one field of
\* con.Input differs from what it was before, and that field is one the
\* event's code is mapped to.
C24_OneFieldPerEvent ==
    readPc = "read" =>
        /\ Cardinality(ChangedFields) <= 1
        /\ ChangedFields \subseteq MappedFields(event)

\* C24: when an event has been handled, only fields the event's code is
\* mapped to differ from what they were before: at most one field for a
\* button, a stick press or a stick axis and for every event in pulse
\* mode, at most the two directions of its axis for a d-pad event in level
\* mode.
C24_MappedFieldsPerEvent ==
    readPc = "read" =>
        /\ ChangedFields \subseteq MappedFields(event)
        /\ (program = "pulse" \/ ~IsDpad(event)) => Cardinality(ChangedFields) <= 1
        /\ Cardinality(ChangedFields) <= 2

\* C24 witness: the manager's handler has taken the d-pad from right to
\* left in one event, changing Left and Right.
C24_Witness ==
    /\ program = "multi"
    /\ readPc = "read"
    /\ event = BinaryEvent(EV_ABS, 16, -1)
    /\ ChangedFields = {"DpadLeft", "DpadRight"}

\* All bytes of the record but those of the timestamp are as Encode writes them.
Carries(buffer, t, c, v) ==
    \A i \in 17..eventSize : buffer[i] = Encode(t, c, v)[i]

\* C25: whatever the first 16 bytes hold, a 24-byte record that carries
\* (type, code, value) decodes to that triple, and the goroutine handles
\* it as that triple; a read of another byte count leaves con.Input as it
\* was.
C25_DecodeRoundTrip ==
    \A h \in Handles :
        Len(consumed[h]) = 1 =>
            LET r == consumed[h][1] IN
            /\ \A tr \in DecodeTriples :
                  (r.n = eventSize /\ Carries(r.buffer, tr[1], tr[2], tr[3])) =>
                      /\ DecodeType(r.buffer) = tr[1]
                      /\ DecodeCode(r.buffer) = tr[2]
                      /\ DecodeValue(r.buffer) = tr[3]
                      /\ input[h] = handleInputEvent(ZeroInput, tr[1], tr[2], tr[3])
            /\ r.n # eventSize => input[h] = ZeroInput

\* C25 witness: a record with a timestamp of 255s that carries the value
\* -2^31 on code 16 has set d-pad Left.
C25_Witness ==
    /\ consumed[1] = <<StampedRecord(255, EV_ABS, 16, -2147483647 - 1)>>
    /\ DecodeValue(consumed[1][1].buffer) < 0
    /\ input[1].DpadLeft = 1

\* con.Input after the reads rs, applied one after the other to the
\* zeroed state: an error and a short read are no event.
RECURSIVE Folded(_)
Folded(rs) ==
    IF rs = <<>> THEN ZeroInput
    ELSE LET r == rs[Len(rs)]
             in == Folded(SubSeq(rs, 1, Len(rs) - 1))
         IN IF r.failed \/ r.n # eventSize THEN in
            ELSE handleInputEvent(in, DecodeType(r.buffer), DecodeCode(r.buffer),
                                  DecodeValue(r.buffer))

\* C27: at any time con.Input of a session is what handling the records
\* its goroutine has read so far, one after the other in the order read
\* and each once, makes of the zeroed state.
C27_AppliedInOrder ==
    \A h \in Handles : input[h] = Folded(consumed[h])

\* C27 witness: a press of A, the left stick and a release of A have been
\* read in this order: A is up and the stick is where it was put.
C27_Witness ==
    /\ consumed[1] = <<Record(EV_KEY, 304, 1), Record(EV_ABS, 0, 200),
                       Record(EV_KEY, 304, 0)>>
    /\ input[1].A = 0
    /\ input[1].LeftX = 145 * 32767

\* C26 (as claimed): in every program a read that fails leaves con.Input
\* as it was and does not end the loop, which waits out the backoff before
\* it reads again.
C26_ReadErrorBacksOff ==
    [][(readPc = "read" /\ event'.transport = "error") =>
          /\ conInput' = conInput
          /\ readPc' = "sleep"]_vars

\* C28 (as claimed): in every program, level mode and pulse mode, a field
\* of con.Input changes only in a step of the read loop, the handling of
\* an event; no other task writes it.
C28_OnlyLoopWrites ==
    [][(\E f \in Fields : conInput'[f] # conInput[f]) => Handling]_vars

\* The step is one of caller c.
StepOf(c) == pc'[c] # pc[c] \/ players'[c] # players[c]

C30_RegisteredBeforeLoop ==
    /\ [][\A h \in Handles :
            /\ (loopPc[h] = "none" /\ loopPc'[h] # "none") =>
                  /\ loopPc'[h] = "open"
                  /\ loopArg'[h].playerNum \in DOMAIN controllers'
                  /\ controllers'[loopArg'[h].playerNum] = h
            /\ (loopPc[h] = "locked" /\ loopPc'[h] # "locked"
                    /\ closeCount[h] = 0) => loopPc'[h] = "read"]_vars
    /\ [](\A c \in Callers : pc[c] = "add_ret" => ENABLED Return(c))

\* C30 witness: AddController has returned and its goroutine, started with
\* the controller registered, has not yet opened the device, let alone
\* read from it.
C30_Witness ==
    /\ \A c \in Callers : pc[c] = "idle"
    /\ 1 \in DOMAIN controllers /\ controllers[1] = 1
    /\ loopPc[1] = "open"
    /\ loopArg[1].playerNum = 1
    /\ mutex.writer = NoTask

\* The goroutines that have not returned.
LiveLoops == {h \in Handles : loopPc[h] \in {"open", "check", "locked", "read"}}

\* The controller registered for the slot of goroutine h is its own.
DrivesRegistered(h) ==
    /\ loopArg[h].playerNum \in DOMAIN controllers
    /\ controllers[loopArg[h].playerNum] = h

\* C31 (as claimed): a goroutine whose membership check lets it go on to
\* read is the one of the controller registered for its slot: the
\* goroutine of a removed controller ends at its check, also when the slot
\* has been added again, so that a slot never has two goroutines reading.
C31_OneLoopPerSlot ==
    [][\A h \in Handles :
          (loopPc[h] = "locked" /\ loopPc'[h] = "read") => DrivesRegistered(h)]_vars

\* C32 (as claimed): whenever no caller is inside AddController,
\* RemoveController or Close, every registered controller has a goroutine
\* that has not returned: no slot stays registered whose loop has exited.
C32_RegisteredHasLiveLoop ==
    mutex.writer = NoTask =>
        \A playerNum \in DOMAIN controllers :
            controllers[playerNum] \in LiveLoops

\* C33: whenever nobody holds the mutex as writer, cm.controllers and
\* cm.devices have the same keys, every key is a player number from 1 to
\* 8, and so at most 8 controllers are registered.
C33_ParallelMaps ==
    mutex.writer = NoTask =>
        /\ DOMAIN controllers = DOMAIN devices
        /\ DOMAIN controllers \subseteq MinPlayer..MaxPlayer
        /\ Cardinality(DOMAIN controllers) <= 8

\* C33 witness: after two adds and the removal of slot 1, with calls that
\* failed or not in between, the mutex is free and both maps hold slot 2.
C33_Witness ==
    /\ mutex.writer = NoTask
    /\ closeCount[1] = 1
    /\ DOMAIN controllers = {2}
    /\ DOMAIN devices = {2}

\* C34: a controller's Close is called in the very step that takes it out
\* of the registry, and in no other; so, whenever nobody holds the mutex
\* as writer, a controller that is registered has not been closed, and one
\* that was connected and is registered no more has been closed once.
C34_ClosedOnceOnLeaving ==
    /\ [][\A h \in Handles :
            /\ closeCount'[h] # closeCount[h] =>
                  /\ closeCount'[h] = closeCount[h] + 1
                  /\ h \in Registered(controllers)
                  /\ h \notin Registered(controllers')
            /\ (h \in Registered(controllers) /\ h \notin Registered(controllers')) =>
                  closeCount'[h] = closeCount[h] + 1]_vars
    /\ [](mutex.writer = NoTask =>
            \A h \in Handles :
                closeCount[h] = IF h < nextHandle /\ h \notin Registered(controllers)
                                THEN 1 ELSE 0)

\* C34 witness: one controller has left the registry by RemoveController,
\* the other by Close, a further Close has run, and each has been closed
\* once.
C34_Witness ==
    /\ mutex.writer = NoTask
    /\ controllers = EmptyMap
    /\ closeCount = [h \in Handles |-> 1]
    /\ \A h \in Handles : loopPc[h] = "stopped"

\* The first check that an AddController call fails, in the order range,
\* duplicate, source path, connect; "none" when it fails none.
EarliestFailure(c) ==
    IF ~PlayerInRange(arg[c].playerNum) THEN "range"
    ELSE IF Exists(arg[c].playerNum) THEN "duplicate"
    ELSE IF ~Open(arg[c].inputDevice) THEN "source"
    ELSE IF ~Connect(arg[c].hidgDevice) THEN "connect"
    ELSE "none"

\* C35 (as claimed): AddController checks the range, then the duplicate,
\* then the source path, then connects: Connect is only attempted by a call
\* that has passed the three earlier checks, and a call that fails returns
\* the error of the earliest check it fails.
C35_ChecksInOrder ==
    [][\A c \in Callers :
          /\ (pc[c] = "add_connect" /\ pc'[c] # "add_connect") =>
                EarliestFailure(c) \in {"connect", "none"}
          /\ (pc[c] \in {"add_check", "add_connect"} /\ pc'[c] = "add_ret") =>
                err'[c] = EarliestFailure(c)]_vars

\* C36 (as claimed): in pulse mode a field that is 1 is not cleared by a
\* step after which a reset timer of that field is still pending, so that
\* the field stays 1 until the timer of its latest press has fired.
C36_PulseLastsUntilLatestTimer ==
    [][program = "pulse" =>
          \A f \in PulseFields :
              (conInput[f] = 1 /\ timers'[f] > 0) => conInput'[f] = 1]_vars

\* C37 (as claimed): in every program, level mode and pulse mode, Left and
\* Right are never both 1 and Up and Down are never both 1.
C37_OppositesExclusive ==
    /\ ~(conInput.DpadLeft = 1 /\ conInput.DpadRight = 1)
    /\ ~(conInput.DpadUp = 1 /\ conInput.DpadDown = 1)

\* C38: the two-branch, the three-branch and the four-branch normalizer
\* give the same result on every raw value: whichever program has handled
\* the value, the axis holds what each of the three computes; the first
\* rule whose range contains the value is never the 12-bit or the 10-bit
\* one; and a value above 32767 gives exactly 1, one below -32768 exactly -1.
C38_NormalizersAgree ==
    HasHandled =>
        LET v == HandledValue
        IN /\ conInput.LeftX = NormalizeAxis(v)
           /\ conInput.LeftX = NormalizeAxisThree(v)
           /\ conInput.LeftX = NormalizeAxisFour(v)
           /\ FirstRule(v) \notin {3, 4}
           /\ v > 32767 => conInput.LeftX = Unit
           /\ v < -32768 => conInput.LeftX = -Unit

\* C38 witness: the three-branch normalizer has handled 2000, a value of
\* the 12-bit range, by the 16-bit rule.
C38_Witness ==
    /\ HasHandled
    /\ program = "hub"
    /\ HandledValue = 2000
    /\ conInput.LeftX = 2000 * 255

\* A task that is waiting for the mutex, and the same task holding it.
WaitingWriter(c) == pc[c] \in {"lock_wait", "lock_pending"}
WaitingLoop(h) == loopPc[h] \in {"check", "rlock_wait"}
HoldsMutex(c) == mutex.writer = c \/ c \in mutex.callers

\* C39: a caller between two calls and a read loop outside its membership
\* check hold no lock; no task takes the mutex while it holds it; every
\* holder releases the mutex; and every writer that waits for the mutex,
\* and every read loop at its membership check, gets it.
C39_LockIsReleasedAndGranted ==
    /\ [](\A c \in Callers : (pc[c] \in {"idle", "lock_wait", "lock_pending"}) => ~HoldsMutex(c))
    /\ [](\A h \in Handles : h \in mutex.loops <=> loopPc[h] = "locked")
    /\ [][\A c \in Callers :
            (~HoldsMutex(c) /\ HoldsMutex(c)') =>
                (pc[c] \in {"idle", "lock_pending"} /\ mutex.writer = NoTask)]_vars
    /\ \A c \in Callers : HoldsMutex(c) ~> ~HoldsMutex(c)
    /\ \A c \in Callers : WaitingWriter(c) ~> mutex.writer = c
    /\ \A h \in Handles : WaitingLoop(h) ~> h \in mutex.loops

\* C39 witness: a writer holds the mutex in AddController while the other
\* caller is queued for it and a read loop is blocked at its check.
C39_Witness ==
    /\ mutex.writer = "c1"
    /\ arg["c1"].op = "add"
    /\ pc["c2"] = "lock_wait"
    /\ loopPc[1] = "rlock_wait"

====
